---- MODULE Spec2Model ----
(***************************************************************************)
(* Incident orchestration agent: the durable workflow                      *)
(* (incidentOrchestrationWorkflow and its activities under the retry       *)
(* policies of proxyActivities) and the auto-fix engine (autoFixIncident). *)
(*                                                                         *)
(* Spec     the workflow run: activities, attempts, retries, forge effects *)
(* SpecFix  one call of autoFixIncident                                    *)
(***************************************************************************)
EXTENDS Integers, Sequences, FiniteSets, TLC

(***************************************************************************)
(* Bounds of the model.                                                    *)
(***************************************************************************)
\* longest log list one range query returns
MaxLogs == 2

(***************************************************************************)
(* Configuration and inputs.                                               *)
(***************************************************************************)
VARIABLES
  autoEscalateFrom,   \* WorkflowInput.autoEscalateFrom
  AUTO_FIX_MODE,      \* config: off | on
  AUTO_FIX_SEVERITY,  \* config: low | medium | high | critical | all
  githubConfigured    \* GITHUB_TOKEN and a repo target are both present

(***************************************************************************)
(* Workflow state (one run of incidentOrchestrationWorkflow).              *)
(***************************************************************************)
VARIABLES
  wpc,            \* the statement the workflow is at: an activity name,
                  \* "loop" (for-loop header), "returned" or "failed"
  awaiting,       \* the workflow is suspended on the activity it called
  logs,           \* result of fetchRecentLogs
  incidents,      \* detected.map(item => item.incident)
  idx,            \* position of the for-loop over incidents
  issuesCreated,  \* local counter of the workflow
  summary,        \* result of the last summarizeIncident
  wfResult,       \* value returned by the workflow
  inflight,       \* activity invocations the runtime has scheduled and
                  \* not yet closed: [name, inc, attempt, phase, num, fx]
  started,        \* history: activity invocations in the order scheduled
  issueRes,       \* history: per incident, result of createIssueForIncident
  forge           \* the code forge: issues, branches, pull requests per incident

(***************************************************************************)
(* State of one call of autoFixIncident.                                   *)
(***************************************************************************)
VARIABLES
  fpc,           \* the statement autoFixIncident is at
  incSeverity,   \* input.incident.severity
  fixEffects,    \* kinds of side effects the call has performed so far
  diff,          \* the normalized diff of the proposal
  rewrite,       \* rewrite.files, <<>> when rewrite is null
  touchedFiles,  \* paths the safety gate reads
  clone,         \* the real clone at repoPath
  ws,            \* the staging workspace <tempDir>/repo
  comments,      \* comments posted on the issue at the forge
  pending,       \* the result returned once the pending comment call is back
  fixResult,     \* value autoFixIncident returns
  fixHist        \* history: what the call saw on its way

(***************************************************************************)
(* The repository indexer (indexRepository) and the tables it maintains.   *)
(***************************************************************************)
VARIABLES
  revs,        \* the commits of the repository: sha -> tree
  head,        \* the sha HEAD is at
  rows,        \* table repo_embeddings, the rows of repoKey
  indexState,  \* table repo_index_state: head_sha of repoKey, NoSha if no row
  ix           \* the indexer run: position and locals of indexRepository

(***************************************************************************)
(* Calls of the pure functions checked on their own.                       *)
(***************************************************************************)
VARIABLES
  ck,          \* a call of chunkText: arguments, loop variables, result
  det,         \* a call of detectIncidents: input, buckets, result
  llm,         \* a call of summarizeIncident: configuration, reply, result
  call         \* a call of one of runInSandbox, getCachedRepoPath,
               \* retrieveRepoContext, withRetry: arguments, locals, result

cfgVars == <<autoEscalateFrom, AUTO_FIX_MODE, AUTO_FIX_SEVERITY, githubConfigured>>

wfVars == <<wpc, awaiting, logs, incidents, idx, issuesCreated, summary,
            wfResult, inflight, started, issueRes, forge>>

fixVars == <<fpc, incSeverity, fixEffects, diff, rewrite, touchedFiles, clone, ws,
             comments, pending, fixResult, fixHist>>

idxVars == <<revs, head, rows, indexState, ix>>

pureVars == <<ck, det, llm, call>>

vars == <<cfgVars, wfVars, fixVars, idxVars, pureVars>>

(***************************************************************************)
(* Severities and their rank.                                              *)
(***************************************************************************)
Severities == {"low", "medium", "high", "critical"}
EscalateSettings == Severities \cup {"none"}
FixSeveritySettings == Severities \cup {"all"}

severityRank_HighAsMedium(severity) ==
  CASE severity = "critical" -> 4
    [] severity = "high" -> 2
    [] severity = "medium" -> 2
    [] OTHER -> 1

\* switch with default: every unknown string ranks as "low"
severityRank(severity) ==
  CASE severity = "critical" -> 4
    [] severity = "high" -> 3
    [] severity = "medium" -> 2
    [] OTHER -> 1

(***************************************************************************)
(* Incident detector.  A log event is what extractSignal reads of it: the  *)
(* parsed "type" and "route" fields ("" when absent or when the message is *)
(* not JSON) and the phrases its display message contains.                 *)
(***************************************************************************)
NoField == ""

extractSignal(log) ==
  LET type == log.type
      route == IF log.route = NoField THEN "unknown" ELSE log.route
  IN  IF type = "error_burst" \/ "Synthetic error burst" \in log.phrases
        THEN [key |-> <<"error_burst", route>>, severity |-> "high", label |-> "error_burst"]
      ELSE IF "Simulated error" \in log.phrases
        THEN [key |-> <<"error", route>>, severity |-> "high", label |-> "error"]
      ELSE IF "Slow response" \in log.phrases
        THEN [key |-> <<"slow", route>>, severity |-> "medium", label |-> "latency"]
      ELSE IF "Failed login attempt" \in log.phrases
        THEN [key |-> <<"auth", route>>, severity |-> "low", label |-> "auth"]
      ELSE [key |-> <<"other", route>>, severity |-> "low", label |-> "unknown"]

\* Map iteration order: keys in the order of their first insertion
RECURSIVE bucketKeys(_, _)
bucketKeys(ls, acc) ==
  IF ls = <<>> THEN acc
  ELSE LET k == extractSignal(Head(ls)).key
       IN  bucketKeys(Tail(ls),
                      IF \E j \in 1..Len(acc) : acc[j] = k THEN acc ELSE Append(acc, k))

detectIncidents(ls) ==
  LET keys == bucketKeys(ls, <<>>)
      members(k) == {i \in 1..Len(ls) : extractSignal(ls[i]).key = k}
      first(k) == CHOOSE i \in members(k) : \A j \in members(k) : i <= j
  IN  [n \in 1..Len(keys) |->
         [id       |-> n,      \* randomUUID(): distinct per bucket
          key      |-> keys[n],
          label    |-> extractSignal(ls[first(keys[n])]).label,
          severity |-> extractSignal(ls[first(keys[n])]).severity,
          count    |-> Cardinality(members(keys[n]))]]

\* Events the log backend returns in the workflow runs explored
LogEvents ==
  { [type |-> "error_burst", route |-> "/api/orders", phrases |-> {"Synthetic error burst"}],
    [type |-> NoField, route |-> "/slow", phrases |-> {"Slow response"}],
    [type |-> NoField, route |-> NoField, phrases |-> {"Failed login attempt"}] }

RECURSIVE SeqsUpTo(_, _)
SeqsUpTo(S, n) ==
  IF n = 0 THEN {<<>>}
  ELSE LET shorter == SeqsUpTo(S, n - 1)
       IN  shorter \cup {Append(s, x) : s \in shorter, x \in S}

LogInputs == SeqsUpTo(LogEvents, MaxLogs)

(***************************************************************************)
(* Auto-fix guard (autoFix.ts), read by the workflow model to summarise    *)
(* what one run of the activity can do at the forge.                       *)
(***************************************************************************)
shouldAutoFix_IgnoresMode(severity) ==
  \/ AUTO_FIX_SEVERITY = "all"
  \/ severityRank(severity) >= severityRank(AUTO_FIX_SEVERITY)

shouldAutoFix(severity) ==
  IF AUTO_FIX_MODE # "on" THEN FALSE
  ELSE IF AUTO_FIX_SEVERITY = "all" THEN TRUE
  ELSE severityRank(severity) >= severityRank(AUTO_FIX_SEVERITY)

(***************************************************************************)
(* Activities and their retry policies.                                    *)
(***************************************************************************)
programOrder_PersistLate ==
  <<"refreshRepoCache", "fetchRecentLogs", "detectIncidents">>

\* the awaited calls before the for-loop, as written
programOrder ==
  <<"refreshRepoCache", "fetchRecentLogs", "detectIncidents", "persistIncidents">>

IncidentActivities == {"summarizeIncident", "createIssueForIncident", "autoFixIncident"}
DefaultActivities == {"refreshRepoCache", "fetchRecentLogs", "detectIncidents",
                      "persistIncidents", "summarizeIncident", "createIssueForIncident"}
ActivityNames == DefaultActivities \cup {"autoFixIncident"}

maximumAttempts_AllDefault(name) == 3

\* retry: { maximumAttempts } of the two proxyActivities declarations
maximumAttempts(name) == IF name = "autoFixIncident" THEN 1 ELSE 3

stepAfter(name) ==
  LET k == CHOOSE i \in 1..Len(programOrder) : programOrder[i] = name
  IN  IF k < Len(programOrder) THEN programOrder[k + 1] ELSE "loop"

skipsIncident_StrictlyAbove(severity, from) ==
  from = "none" \/ severityRank(severity) <= severityRank(from)

\* the `continue` guard of the for-loop
skipsIncident(severity, from) ==
  from = "none" \/ severityRank(severity) < severityRank(from)

issuesCreatedAfter_CountsEveryCall(n, result) == n + 1

\* if (result?.created) issuesCreated += 1
issuesCreatedAfter(n, result) == IF result.created THEN n + 1 ELSE n

runsAutoFix_Always(result) == TRUE

\* if (result?.created) { ... if (result.number) await autoFixIncident(...) }
runsAutoFix(result) == result.created /\ result.number # 0

NoIssue == [created |-> FALSE, number |-> 0]
IncIds == 1..MaxLogs

Invocation(name, inc) ==
  [name |-> name, inc |-> inc, attempt |-> 1, phase |-> "running",
   num |-> 0, fx |-> "none"]

TotalIssues == LET RECURSIVE sum(_)
                   sum(n) == IF n = 0 THEN 0 ELSE forge.issues[n] + sum(n - 1)
               IN  sum(MaxLogs)

(***************************************************************************)
(* Auto-fix engine: paths, proposals and the pure helpers of autoFix.ts.   *)
(* A path is the sequence of its tokens, so that String.includes is the    *)
(* search for a contiguous run of tokens.                                  *)
(***************************************************************************)
\* most file sections in a diff proposal
MaxSections == 2
\* most files in a rewrite proposal
MaxFiles == 2

MAX_DIFF_BYTES == 200000
MAX_FILE_BYTES == 500000

DENYLIST_PATHS == << <<".env">>, <<".env", ".local">>, <<"secrets">>, <<"credentials">> >>

IGNORED_COPY_DIRS == { <<".git">>, <<"node_modules">>, <<"dist">>, <<"build">>,
                       <<"coverage">>, <<".cursor">>, <<".next">>, <<".turbo">>,
                       <<"logs">> }

PathA      == <<"src", "/", "a", ".ts">>
PathNew    == <<"src", "/", "b", ".ts">>
PathEnv    == <<".env">>
PathSecret == <<"src", "/", "my", "secrets", "store", ".ts">>
PathPkg    == <<"package", ".json">>
PathDep    == <<"node_modules", "/", "dep", ".js">>
PatchFile  == <<".agentic", ".patch">>

\* String.prototype.includes
includes(path, segment) ==
  \E i \in 1..(Len(path) - Len(segment) + 1) :
    SubSeq(path, i, i + Len(segment) - 1) = segment

\* DENYLIST_PATHS.some((segment) => path.includes(segment))
isDenylisted(path) ==
  \E n \in 1..Len(DENYLIST_PATHS) : includes(path, DENYLIST_PATHS[n])

\* relative.split(path.sep)
RECURSIVE splitPath(_, _)
splitPath(path, cur) ==
  IF path = <<>> THEN {cur}
  ELSE IF Head(path) = "/" THEN {cur} \cup splitPath(Tail(path), <<>>)
  ELSE splitPath(Tail(path), Append(cur, Head(path)))

\* the filter of copyRepo: what of the clone reaches the workspace
copyRepo(files) ==
  {p \in files : /\ splitPath(p, <<>>) \cap IGNORED_COPY_DIRS = {}
                 /\ ~isDenylisted(p)}

\* A diff is the sequence of its file sections.  hdr = "git": the section
\* opens with "diff --git a/<path> b/<path>"; hdr = "trad": it has only the
\* "---" / "+++" lines.  isNew: the section creates the file, its old side is
\* "--- /dev/null".  hunks: the text holds an "@@".  len: diff.length.
DiffSections ==
  { [hdr |-> "git",  path |-> PathA,      isNew |-> FALSE],
    [hdr |-> "git",  path |-> PathEnv,    isNew |-> FALSE],
    [hdr |-> "git",  path |-> PathSecret, isNew |-> FALSE],
    [hdr |-> "git",  path |-> PathNew,    isNew |-> TRUE],
    [hdr |-> "trad", path |-> PathA,      isNew |-> FALSE],
    [hdr |-> "trad", path |-> PathEnv,    isNew |-> TRUE] }

DiffProposals ==
  { [sections |-> s, hunks |-> h, len |-> l] :
      s \in SeqsUpTo(DiffSections, MaxSections) \ {<<>>},
      h \in BOOLEAN,
      l \in {MAX_DIFF_BYTES, MAX_DIFF_BYTES + 1} }

NoDiff == [sections |-> <<>>, hunks |-> FALSE, len |-> 0]

\* A rewrite file: its path, content.length, anchored: the content holds an
\* anchor line of the original at that path (or that original has fewer than
\* 20 non-blank lines), shrunk: content.length < original.length * 0.5.
RewriteFiles ==
  { [path |-> PathA,      size |-> 1000,               anchored |-> TRUE,  shrunk |-> FALSE],
    [path |-> PathA,      size |-> 1000,               anchored |-> FALSE, shrunk |-> FALSE],
    [path |-> PathA,      size |-> 1000,               anchored |-> TRUE,  shrunk |-> TRUE],
    [path |-> PathA,      size |-> MAX_FILE_BYTES + 1, anchored |-> TRUE,  shrunk |-> FALSE],
    [path |-> PathNew,    size |-> 1000,               anchored |-> FALSE, shrunk |-> FALSE],
    [path |-> PathEnv,    size |-> 1000,               anchored |-> TRUE,  shrunk |-> FALSE] }

RewriteProposals == SeqsUpTo(RewriteFiles, MaxFiles) \ {<<>>}

\* trees the real clone can hold when the call starts
CloneTrees == { {PathA}, {PathA, PathPkg, PathEnv, PathDep} }

Paths(seq) == {seq[n] : n \in 1..Len(seq)}

\* /^diff --git a\/(.+?) b\/(.+)$/gm, and only when that finds nothing
\* /^--- a\/(.+)$/gm
extractDiffFiles(d) ==
  LET git == SelectSeq(d.sections, LAMBDA s : s.hdr = "git")
      old == SelectSeq(d.sections, LAMBDA s : ~s.isNew)
  IN  IF Len(git) > 0
        THEN [n \in 1..Len(git) |-> git[n].path]
        ELSE [n \in 1..Len(old) |-> old[n].path]

\* diff.includes("--- a/") && diff.includes("+++ b/") && diff.includes("@@")
isUnifiedDiff(d) ==
  /\ \E n \in 1..Len(d.sections) : ~d.sections[n].isNew
  /\ Len(d.sections) > 0
  /\ d.hunks

validateDiff_RejectsAtLimit(d, touched) ==
  IF ~isUnifiedDiff(d) \/ Len(touched) = 0 THEN "invalid_diff"
  ELSE IF d.len >= MAX_DIFF_BYTES THEN "diff_too_large"
  ELSE "ok"

validateDiff(d, touched) ==
  IF ~isUnifiedDiff(d) \/ Len(touched) = 0 THEN "invalid_diff"
  ELSE IF d.len > MAX_DIFF_BYTES THEN "diff_too_large"
  ELSE "ok"

\* validateRewriteFiles: the first file that fails decides; a file with no
\* original at its path passes unchecked
validateRewriteFiles(base, files) ==
  LET bad == {n \in 1..Len(files) :
                /\ files[n].path \in base
                /\ (~files[n].anchored \/ files[n].shrunk)}
  IN  IF bad = {} THEN "ok"
      ELSE LET n == CHOOSE m \in bad : \A o \in bad : m <= o
           IN  IF ~files[n].anchored THEN "rewrite_missing_anchors"
               ELSE "rewrite_too_short"

\* applyRewriteFiles: the files written before the first one that throws
RECURSIVE rewriteWrites(_)
rewriteWrites(files) ==
  IF files = <<>> THEN <<>>
  ELSE IF isDenylisted(Head(files).path) \/ Head(files).size > MAX_FILE_BYTES
    THEN <<>>
  ELSE <<Head(files)>> \o rewriteWrites(Tail(files))

applyRewriteThrows(files) == Len(rewriteWrites(files)) < Len(files)

\* git apply: every file section of the patch is applied, whichever header
\* introduces it; a section needs its file present, a creating one absent
patchApplies(d, tree) ==
  \A n \in 1..Len(d.sections) :
    IF d.sections[n].isNew THEN d.sections[n].path \notin tree
    ELSE d.sections[n].path \in tree

patchedPaths(d) == {d.sections[n].path : n \in 1..Len(d.sections)}

unsafeFiles(touched) == {n \in 1..Len(touched) : isDenylisted(touched[n])}

\* every check the engine makes on a rewrite, in validateRewriteFiles or in
\* applyRewriteFiles: size, denylist, anchors, length
failsARewriteCheck(base, files) ==
  \E n \in 1..Len(files) :
    \/ files[n].size > MAX_FILE_BYTES
    \/ isDenylisted(files[n].path)
    \/ files[n].path \in base /\ (~files[n].anchored \/ files[n].shrunk)

sanitizedDiffers_Never(d) == FALSE

\* sanitized !== diff: normalizeDiff trims the diff, sanitizeDiff ends its
\* result with a newline
sanitizedDiffers(d) == TRUE

\* exit codes runInSandbox reports
ExitCodes == {0, 1}

sandboxFailed_Never(exitCode) == FALSE

sandboxFailed_OnlyAboveOne(exitCode) == exitCode > 1

\* installResult.exitCode !== 0, sandboxResult.exitCode !== 0
sandboxFailed(exitCode) == exitCode # 0

\* output of git status --porcelain on the clone
porcelain(c) == IF c.dirty THEN "??" ELSE ""

repoDirty_Never(output) == FALSE

\* status.output.trim().length > 0
repoDirty(output) == output # ""

onThrow_Uncaught == "thrown"

\* try { ... } catch (error) { ... }: where a throw inside the engine lands
onThrow == "catch"

NoHistory == [pass |-> "none", sandbox |-> "none", prs |-> 0, commentThrew |-> FALSE,
              statusSeen |-> "none", checkouts |-> 0, diffLong |-> FALSE,
              diffFormed |-> FALSE, rewriteCalls |-> 0, rewriteCheck |-> "none",
              rewriteWrote |-> FALSE, wsApplies |-> 0, prRejected |-> FALSE]

NoResult == [status |-> "none", reason |-> "none"]
Failed(reason) == [status |-> "failed", reason |-> reason]

NoSha == 0

\* git rev-parse HEAD: nothing printed, and what it prints when it fails
NoOutput == NoSha
FatalOutput == -1

NoRevParse == [code |-> 0, output |-> NoOutput]

\* the locals of a run and what it has done: embeds counts the embedText calls,
\* upserts the rows written, deletes the DELETE statements issued; stored and
\* hadRows are what the run read from the tables when it started; prevClean says
\* the run follows, at the same HEAD, a completed run that read HEAD and in which
\* no file failed
NoRun == [pc |-> "idle", revParse |-> NoRevParse, headSha |-> NoSha, files |-> <<>>,
          existingPaths |-> {}, currentPaths |-> {}, early |-> FALSE,
          swallowed |-> FALSE, wroteState |-> FALSE, stored |-> NoSha,
          hadRows |-> FALSE, embeds |-> 0, upserts |-> 0, deletes |-> 0,
          prevClean |-> FALSE]

NotCalled == [pc |-> "idle"]

PureIdle ==
  /\ ck = NotCalled
  /\ det = NotCalled
  /\ llm = NotCalled
  /\ call = NotCalled

\* the run ended with a rejection or the process is gone: its locals are lost
Rejected == [NoRun EXCEPT !.pc = "failed"]

IdxIdle ==
  /\ revs = <<>>
  /\ head = NoSha
  /\ rows = {}
  /\ indexState = NoSha
  /\ ix = NoRun

FixIdle ==
  /\ fpc = "idle"
  /\ incSeverity = "low"
  /\ fixEffects = {}
  /\ diff = NoDiff
  /\ rewrite = <<>>
  /\ touchedFiles = <<>>
  /\ clone = [files |-> {}, dirty |-> FALSE, written |-> {}, branch |-> "base",
              fixBranch |-> FALSE, pushed |-> FALSE]
  /\ ws = [files |-> {}, written |-> {}]
  /\ comments = {}
  /\ pending = NoResult
  /\ fixResult = NoResult
  /\ fixHist = NoHistory

(***************************************************************************)
(* Initial state of a workflow run.                                        *)
(***************************************************************************)
InitWf ==
  /\ autoEscalateFrom \in EscalateSettings
  /\ AUTO_FIX_MODE \in {"off", "on"}
  /\ AUTO_FIX_SEVERITY \in {"all", "high"}
  /\ githubConfigured \in BOOLEAN
  /\ wpc = programOrder[1]
  /\ awaiting = FALSE
  /\ logs = <<>>
  /\ incidents = <<>>
  /\ idx = 1
  /\ issuesCreated = 0
  /\ summary = "null"
  /\ wfResult = [returned |-> FALSE, incidents |-> <<>>, issuesCreated |-> 0]
  /\ inflight = {}
  /\ started = <<>>
  /\ issueRes = [i \in IncIds |-> [called |-> FALSE, created |-> FALSE, number |-> 0]]
  /\ forge = [issues |-> [i \in IncIds |-> 0],
              branches |-> [i \in IncIds |-> 0],
              prs |-> [i \in IncIds |-> 0]]
  /\ FixIdle
  /\ IdxIdle
  /\ PureIdle

(***************************************************************************)
(* The runtime: scheduling, attempts, retries.                             *)
(***************************************************************************)
\* `await activity(...)`: the workflow schedules the activity and suspends
Schedule ==
  /\ wpc \in ActivityNames
  /\ ~awaiting
  /\ LET inc == IF wpc \in IncidentActivities THEN idx ELSE 0
     IN  /\ inflight' = inflight \cup {Invocation(wpc, inc)}
         /\ started' = Append(started, [name |-> wpc, inc |-> inc])
  /\ awaiting' = TRUE
  /\ UNCHANGED <<cfgVars, idxVars, pureVars, fixVars,
                 wpc, logs, incidents, idx, issuesCreated, summary, wfResult,
                 issueRes, forge>>

\* an attempt throws, times out (startToCloseTimeout) or its worker dies;
\* what the attempt already did at the forge stays done
AttemptFails ==
  \E a \in inflight :
    /\ a.phase \in {"running", "effected"}
    /\ inflight' = (inflight \ {a}) \cup {[a EXCEPT !.phase = "failed"]}
    /\ UNCHANGED <<cfgVars, idxVars, pureVars, fixVars,
                   wpc, awaiting, logs, incidents, idx, issuesCreated, summary,
                   wfResult, started, issueRes, forge>>

\* the runtime re-executes the activity function while attempts remain
Retry ==
  \E a \in inflight :
    /\ a.phase = "failed"
    /\ a.attempt < maximumAttempts(a.name)
    /\ inflight' = (inflight \ {a}) \cup
                     {[a EXCEPT !.attempt = a.attempt + 1, !.phase = "running",
                                !.num = 0, !.fx = "none"]}
    /\ UNCHANGED <<cfgVars, idxVars, pureVars, fixVars,
                   wpc, awaiting, logs, incidents, idx, issuesCreated, summary,
                   wfResult, started, issueRes, forge>>

\* attempts exhausted: the awaited call rejects with ActivityFailure; the
\* workflow body has no try/catch, so the run fails
Exhausted ==
  \E a \in inflight :
    /\ a.phase = "failed"
    /\ a.attempt >= maximumAttempts(a.name)
    /\ inflight' = inflight \ {a}
    /\ wpc' = "failed"
    /\ awaiting' = FALSE
    /\ UNCHANGED <<cfgVars, idxVars, pureVars, fixVars,
                   logs, incidents, idx, issuesCreated, summary, wfResult,
                   started, issueRes, forge>>

(***************************************************************************)
(* Effects of activity attempts at the forge.                              *)
(***************************************************************************)
\* createIssue: octokit.issues.create answers 2xx; the forge numbers the issue
ForgeCreatesIssue ==
  \E a \in inflight :
    /\ a.name = "createIssueForIncident"
    /\ a.phase = "running"
    /\ githubConfigured
    /\ forge' = [forge EXCEPT !.issues[a.inc] = @ + 1]
    /\ inflight' = (inflight \ {a}) \cup
                     {[a EXCEPT !.phase = "effected", !.num = TotalIssues + 1]}
    /\ UNCHANGED <<cfgVars, idxVars, pureVars, fixVars,
                   wpc, awaiting, logs, incidents, idx, issuesCreated, summary,
                   wfResult, started, issueRes>>

\* what one execution of autoFixIncident leaves at the forge
AutoFixOutcomes(severity) ==
  IF ~shouldAutoFix(severity) THEN {"skipped"}
  ELSE {"failed", "failed_after_push", "pr_created"}

AutoFixRuns ==
  \E a \in inflight :
    /\ a.name = "autoFixIncident"
    /\ a.phase = "running"
    /\ \E o \in AutoFixOutcomes(incidents[a.inc].severity) :
         /\ forge' = [forge EXCEPT
                        !.branches[a.inc] = IF o \in {"failed_after_push", "pr_created"}
                                              THEN @ + 1 ELSE @,
                        !.prs[a.inc] = IF o = "pr_created" THEN @ + 1 ELSE @]
         /\ inflight' = (inflight \ {a}) \cup
                          {[a EXCEPT !.phase = "effected",
                                     !.fx = IF o = "failed_after_push" THEN "failed" ELSE o]}
    /\ UNCHANGED <<cfgVars, idxVars, pureVars, fixVars,
                   wpc, awaiting, logs, incidents, idx, issuesCreated, summary,
                   wfResult, started, issueRes>>

(***************************************************************************)
(* Completions: the attempt's result reaches the workflow, which resumes.  *)
(***************************************************************************)
CompleteRefreshRepoCache ==
  \E a \in inflight :
    /\ a.name = "refreshRepoCache" /\ a.phase = "running"
    /\ inflight' = inflight \ {a}
    /\ awaiting' = FALSE
    /\ wpc' = stepAfter(a.name)
    /\ UNCHANGED <<cfgVars, idxVars, pureVars, fixVars,
                   logs, incidents, idx, issuesCreated, summary, wfResult,
                   started, issueRes, forge>>

CompleteFetchRecentLogs ==
  \E a \in inflight :
    /\ a.name = "fetchRecentLogs" /\ a.phase = "running"
    /\ inflight' = inflight \ {a}
    /\ awaiting' = FALSE
    /\ \E l \in LogInputs : logs' = l
    /\ wpc' = stepAfter(a.name)
    /\ UNCHANGED <<cfgVars, idxVars, pureVars, fixVars,
                   incidents, idx, issuesCreated, summary, wfResult,
                   started, issueRes, forge>>

CompleteDetectIncidents ==
  \E a \in inflight :
    /\ a.name = "detectIncidents" /\ a.phase = "running"
    /\ inflight' = inflight \ {a}
    /\ awaiting' = FALSE
    /\ incidents' = detectIncidents(logs)
    /\ wpc' = stepAfter(a.name)
    /\ UNCHANGED <<cfgVars, idxVars, pureVars, fixVars,
                   logs, idx, issuesCreated, summary, wfResult,
                   started, issueRes, forge>>

CompletePersistIncidents ==
  \E a \in inflight :
    /\ a.name = "persistIncidents" /\ a.phase = "running"
    /\ inflight' = inflight \ {a}
    /\ awaiting' = FALSE
    /\ wpc' = stepAfter(a.name)
    /\ UNCHANGED <<cfgVars, idxVars, pureVars, fixVars,
                   logs, incidents, idx, issuesCreated, summary, wfResult,
                   started, issueRes, forge>>

\* for (const incident of incidents) { if (...) continue; ... } return {...}
LoopStep ==
  /\ wpc = "loop"
  /\ IF idx > Len(incidents)
       THEN /\ wpc' = "returned"
            /\ wfResult' = [returned |-> TRUE, incidents |-> incidents,
                            issuesCreated |-> issuesCreated]
            /\ idx' = idx
       ELSE IF skipsIncident(incidents[idx].severity, autoEscalateFrom)
         THEN /\ idx' = idx + 1
              /\ UNCHANGED <<wpc, wfResult>>
         ELSE /\ wpc' = "summarizeIncident"
              /\ UNCHANGED <<idx, wfResult>>
  /\ UNCHANGED <<cfgVars, idxVars, pureVars, fixVars,
                 awaiting, logs, incidents, issuesCreated, summary,
                 inflight, started, issueRes, forge>>

CompleteSummarizeIncident ==
  \E a \in inflight :
    /\ a.name = "summarizeIncident" /\ a.phase = "running"
    /\ inflight' = inflight \ {a}
    /\ awaiting' = FALSE
    /\ \E s \in {"null", "summary"} : summary' = s
    /\ wpc' = "createIssueForIncident"
    /\ UNCHANGED <<cfgVars, idxVars, pureVars, fixVars,
                   logs, incidents, idx, issuesCreated, wfResult,
                   started, issueRes, forge>>

\* createIssue returns { created: false } without a forge call when the
\* configuration is missing, { created: true, url, number } after the call
CompleteCreateIssueForIncident ==
  \E a \in inflight :
    /\ a.name = "createIssueForIncident"
    /\ \/ a.phase = "effected"
       \/ a.phase = "running" /\ ~githubConfigured
    /\ LET result == IF a.phase = "effected"
                       THEN [created |-> TRUE, number |-> a.num]
                       ELSE NoIssue
       IN  /\ issueRes' = [issueRes EXCEPT ![a.inc] =
                             [called |-> TRUE, created |-> result.created,
                              number |-> result.number]]
           /\ issuesCreated' = issuesCreatedAfter(issuesCreated, result)
           /\ IF runsAutoFix(result)
                THEN wpc' = "autoFixIncident" /\ idx' = idx
                ELSE wpc' = "loop" /\ idx' = idx + 1
    /\ inflight' = inflight \ {a}
    /\ awaiting' = FALSE
    /\ UNCHANGED <<cfgVars, idxVars, pureVars, fixVars,
                   logs, incidents, summary, wfResult, started, forge>>

CompleteAutoFixIncident ==
  \E a \in inflight :
    /\ a.name = "autoFixIncident" /\ a.phase = "effected"
    /\ inflight' = inflight \ {a}
    /\ awaiting' = FALSE
    /\ wpc' = "loop"
    /\ idx' = idx + 1
    /\ UNCHANGED <<cfgVars, idxVars, pureVars, fixVars,
                   logs, incidents, issuesCreated, summary, wfResult,
                   started, issueRes, forge>>

NextWf ==
  \/ Schedule
  \/ AttemptFails
  \/ Retry
  \/ Exhausted
  \/ ForgeCreatesIssue
  \/ AutoFixRuns
  \/ CompleteRefreshRepoCache
  \/ CompleteFetchRecentLogs
  \/ CompleteDetectIncidents
  \/ CompletePersistIncidents
  \/ LoopStep
  \/ CompleteSummarizeIncident
  \/ CompleteCreateIssueForIncident
  \/ CompleteAutoFixIncident

Spec == InitWf /\ [][NextWf]_vars

(***************************************************************************)
(* autoFixIncident, statement by statement.  Every collaborator (repo      *)
(* cache, retriever, LLM, filesystem, git, sandbox, forge) answers with    *)
(* any of the outcomes its interface allows.                               *)
(***************************************************************************)
WfIdle ==
  /\ wpc = "idle"
  /\ awaiting = FALSE
  /\ logs = <<>>
  /\ incidents = <<>>
  /\ idx = 1
  /\ issuesCreated = 0
  /\ summary = "null"
  /\ wfResult = [returned |-> FALSE, incidents |-> <<>>, issuesCreated |-> 0]
  /\ inflight = {}
  /\ started = <<>>
  /\ issueRes = [i \in IncIds |-> [called |-> FALSE, created |-> FALSE, number |-> 0]]
  /\ forge = [issues |-> [i \in IncIds |-> 0],
              branches |-> [i \in IncIds |-> 0],
              prs |-> [i \in IncIds |-> 0]]

InitFix ==
  /\ autoEscalateFrom = "high"
  /\ AUTO_FIX_MODE \in {"off", "on"}
  /\ AUTO_FIX_SEVERITY \in FixSeveritySettings
  /\ githubConfigured \in BOOLEAN
  /\ WfIdle
  /\ IdxIdle
  /\ PureIdle
  /\ fpc = "start"
  /\ incSeverity \in Severities
  /\ fixEffects = {}
  /\ diff = NoDiff
  /\ rewrite = <<>>
  /\ touchedFiles = <<>>
  /\ \E t \in CloneTrees : \E d \in BOOLEAN :
       clone = [files |-> t, dirty |-> d, written |-> {}, branch |-> "base",
                fixBranch |-> FALSE, pushed |-> FALSE]
  /\ ws = [files |-> {}, written |-> {}]
  /\ comments = {}
  /\ pending = NoResult
  /\ fixResult = NoResult
  /\ fixHist = NoHistory

\* if (!shouldAutoFix(input.incident.severity)) return { status: "skipped" }
FixGuard ==
  /\ fpc = "start"
  /\ IF ~shouldAutoFix(incSeverity)
       THEN /\ fixResult' = [status |-> "skipped",
                             reason |-> "auto_fix_disabled_or_severity"]
            /\ fpc' = "done"
       ELSE /\ fpc' = "resolveRepo"
            /\ UNCHANGED fixResult
  /\ UNCHANGED <<cfgVars, idxVars, pureVars, wfVars, incSeverity, fixEffects, diff, rewrite,
                 touchedFiles, clone, ws, comments, pending, fixHist>>

\* AUTO_FIX_REPO_PATH if set, else getCachedRepoPath(): clone, or fetch and
\* reset --hard, which may throw
ResolveRepo ==
  /\ fpc = "resolveRepo"
  /\ \E how \in {"explicit", "cached", "throws"} :
       /\ fixEffects' = IF how = "explicit" THEN fixEffects ELSE fixEffects \cup {"git"}
       /\ fpc' = IF how = "throws" THEN onThrow ELSE "retrieve"
       /\ IF how = "cached"
            THEN \E d \in {clone.dirty, FALSE} : clone' = [clone EXCEPT !.dirty = d]
            ELSE UNCHANGED clone
  /\ UNCHANGED <<cfgVars, idxVars, pureVars, wfVars, incSeverity, diff, rewrite, touchedFiles, ws,
                 comments, pending, fixResult, fixHist>>

RetrieveContext ==
  /\ fpc = "retrieve"
  /\ fixEffects' = fixEffects \cup {"retrieval"}
  /\ \E ok \in BOOLEAN : fpc' = IF ok THEN "propose" ELSE onThrow
  /\ UNCHANGED <<cfgVars, idxVars, pureVars, wfVars, incSeverity, diff, rewrite, touchedFiles, clone,
                 ws, comments, pending, fixResult, fixHist>>

\* generateFixProposal, setFromProposal, validateDiff.  A diff that fails
\* validation is read again only for the text of a comment, and its touched
\* files are not read again.
GenerateProposal ==
  /\ fpc = "propose"
  /\ fixEffects' = fixEffects \cup {"llm"}
  /\ \E p \in DiffProposals \cup {NoDiff} :
       IF p = NoDiff
         THEN /\ fpc' = "rewrite"
              /\ UNCHANGED <<diff, touchedFiles, pending, fixHist>>
         ELSE LET touched == extractDiffFiles(p)
                  status == validateDiff(p, touched)
              IN  /\ touchedFiles' = IF status = "ok" THEN touched ELSE <<>>
                  /\ diff' = IF status = "ok" THEN p ELSE NoDiff
                  /\ fpc' = CASE status = "diff_too_large" -> "comment"
                              [] status = "invalid_diff" -> "rewrite"
                              [] OTHER -> "gate"
                  /\ pending' = IF status = "diff_too_large"
                                  THEN Failed("diff_too_large") ELSE pending
                  /\ fixHist' = [fixHist EXCEPT
                                   !.pass = IF status = "ok" THEN "first" ELSE @,
                                   !.diffLong = p.len > MAX_DIFF_BYTES,
                                   !.diffFormed = isUnifiedDiff(p) /\ Len(touched) > 0]
  /\ UNCHANGED <<cfgVars, idxVars, pureVars, wfVars, incSeverity, rewrite, clone, ws, comments, fixResult>>

\* what the model records of a rewrite's checks
rewriteCheckOf(files, r) ==
  IF failsARewriteCheck(files, r) THEN "fail" ELSE "pass"

\* validateRewriteFiles over the proposals, once per tree of the clone: the
\* rewrites it accepts, and of those it rejects the checks recorded (they
\* lead to one result and differ in nothing else)
validatedRewrites ==
  [files \in CloneTrees |->
     [valid   |-> {r \in RewriteProposals : validateRewriteFiles(files, r) = "ok"},
      invalid |-> {rewriteCheckOf(files, r) :
                     r \in {x \in RewriteProposals :
                              validateRewriteFiles(files, x) # "ok"}}]]

\* if (!proposal): generateFixRewrite, validateRewriteFiles(repoPath, ...).
\* A rewrite that fails validation is not read again.
GenerateRewrite ==
  /\ fpc = "rewrite"
  /\ fixEffects' = fixEffects \cup {"llm"}
  /\ \/ /\ fpc' = "comment"
        /\ pending' = Failed("invalid_diff")
        /\ fixHist' = [fixHist EXCEPT !.rewriteCalls = @ + 1]
        /\ UNCHANGED <<rewrite, touchedFiles>>
     \/ \E check \in validatedRewrites[clone.files].invalid :
          /\ fixHist' = [fixHist EXCEPT !.rewriteCalls = @ + 1,
                                        !.rewriteCheck = check]
          /\ fpc' = "comment"
          /\ pending' = Failed("rewrite_invalid")
          /\ UNCHANGED <<rewrite, touchedFiles>>
     \/ \E r \in validatedRewrites[clone.files].valid :
          /\ fixHist' = [fixHist EXCEPT
                           !.rewriteCalls = @ + 1,
                           !.rewriteCheck = rewriteCheckOf(clone.files, r),
                           !.pass = "first"]
          /\ rewrite' = r
          /\ touchedFiles' = [n \in 1..Len(r) |-> r[n].path]
          /\ fpc' = "gate"
          /\ UNCHANGED pending
  /\ UNCHANGED <<cfgVars, idxVars, pureVars, wfVars, incSeverity, diff, clone, ws, comments, fixResult>>

\* const unsafeFile = touchedFiles.find(...); if (unsafeFile) { comment; return }
SafetyGate ==
  /\ fpc = "gate"
  /\ IF unsafeFiles(touchedFiles) # {}
       THEN fpc' = "comment" /\ pending' = Failed("unsafe_files")
       ELSE fpc' = "workspace" /\ UNCHANGED pending
  /\ UNCHANGED <<cfgVars, idxVars, pureVars, wfVars, incSeverity, fixEffects, diff, rewrite,
                 touchedFiles, clone, ws, comments, fixResult, fixHist>>

\* mkdir .workspaces, mkdtemp, copyRepo(repoPath, workDir)
CreateWorkspace ==
  /\ fpc = "workspace"
  /\ fixEffects' = fixEffects \cup {"workspace"}
  /\ \E ok \in BOOLEAN :
       IF ok
         THEN /\ ws' = [files |-> copyRepo(clone.files), written |-> copyRepo(clone.files)]
              /\ fpc' = "stage"
         ELSE /\ fpc' = onThrow
              /\ UNCHANGED ws
  /\ UNCHANGED <<cfgVars, idxVars, pureVars, wfVars, incSeverity, diff, rewrite, touchedFiles, clone,
                 comments, pending, fixResult, fixHist>>

\* try { rewrite ? applyRewriteFiles(workDir) : applyPatch(diff, workDir) }
\* applyPatch runs git apply, and once more on the sanitized text when the
\* first run fails.  A proposal that fails to apply is not read again, nor
\* are its touched files: the catch block replaces them by those of a
\* rewrite or returns.
StageProposal ==
  /\ fpc = "stage"
  /\ IF rewrite # <<>>
       THEN LET w == {f.path : f \in Paths(rewriteWrites(rewrite))}
            IN  /\ ws' = [files |-> ws.files \cup w, written |-> ws.written \cup w]
                /\ fixHist' = [fixHist EXCEPT !.rewriteWrote = (w # {})]
                /\ IF applyRewriteThrows(rewrite)
                     THEN fpc' = "fallback" /\ rewrite' = <<>> /\ touchedFiles' = <<>>
                     ELSE fpc' = "install" /\ UNCHANGED <<rewrite, touchedFiles>>
                /\ UNCHANGED <<fixEffects, diff>>
       ELSE /\ fixEffects' = fixEffects \cup {"git"}
            /\ \E how \in {"first", "retry", "fails"} :
                 /\ how # "fails" => patchApplies(diff, ws.files)
                 /\ how = "retry" => sanitizedDiffers(diff)
                 /\ fixHist' = [fixHist EXCEPT !.wsApplies =
                                  IF how # "first" /\ sanitizedDiffers(diff)
                                    THEN 2 ELSE 1]
                 /\ IF how # "fails"
                      THEN /\ ws' = [files |-> ws.files \cup patchedPaths(diff),
                                     written |-> ws.written \cup patchedPaths(diff)
                                                   \cup {PatchFile}]
                           /\ fpc' = "install"
                           /\ UNCHANGED <<diff, touchedFiles>>
                      ELSE /\ ws' = [ws EXCEPT !.written = @ \cup {PatchFile}]
                           /\ fpc' = "fallback"
                           /\ diff' = NoDiff
                           /\ touchedFiles' = <<>>
            /\ UNCHANGED rewrite
  /\ UNCHANGED <<cfgVars, idxVars, pureVars, wfVars, incSeverity, clone,
                 comments, pending, fixResult>>

\* catch (error): generateFixRewrite again, validate, applyRewriteFiles(workDir)
RegenerateRewrite ==
  /\ fpc = "fallback"
  /\ fixEffects' = fixEffects \cup {"llm"}
  /\ \/ /\ fpc' = "comment"
        /\ pending' = Failed("invalid_diff")
        /\ rewrite' = <<>>
        /\ fixHist' = [fixHist EXCEPT !.rewriteCalls = @ + 1,
                                      !.rewriteCheck = "none",
                                      !.rewriteWrote = FALSE]
        /\ UNCHANGED <<touchedFiles, ws>>
     \/ \E check \in validatedRewrites[clone.files].invalid :
          /\ fpc' = "comment"
          /\ pending' = Failed("rewrite_invalid")
          /\ rewrite' = <<>>
          /\ fixHist' = [fixHist EXCEPT !.rewriteCalls = @ + 1,
                                        !.rewriteCheck = check,
                                        !.rewriteWrote = FALSE]
          /\ UNCHANGED <<touchedFiles, ws>>
     \/ \E r \in validatedRewrites[clone.files].valid :
          LET w == {f.path : f \in Paths(rewriteWrites(r))}
          IN  /\ rewrite' = r
              /\ touchedFiles' = [n \in 1..Len(r) |-> r[n].path]
              /\ fixHist' = [fixHist EXCEPT
                               !.pass = "fallback",
                               !.rewriteCalls = @ + 1,
                               !.rewriteCheck = rewriteCheckOf(clone.files, r),
                               !.rewriteWrote = (w # {})]
              /\ ws' = [files |-> ws.files \cup w,
                        written |-> ws.written \cup w]
              /\ fpc' = IF applyRewriteThrows(r) THEN onThrow ELSE "install"
              /\ UNCHANGED pending
  /\ UNCHANGED <<cfgVars, idxVars, pureVars, wfVars, incSeverity, diff, clone, comments, fixResult>>

\* if (installCommand && hasPackageJson) runInSandbox(install)
SandboxInstall ==
  /\ fpc = "install"
  /\ \E configured \in BOOLEAN : \E exitCode \in ExitCodes :
       IF configured /\ PathPkg \in ws.files
         THEN /\ fixEffects' = fixEffects \cup {"sandbox"}
              /\ fixHist' = [fixHist EXCEPT !.sandbox =
                               IF exitCode = 0 THEN "installed" ELSE "install_failed"]
              /\ IF sandboxFailed(exitCode)
                   THEN fpc' = "comment" /\ pending' = Failed("sandbox_install_failed")
                   ELSE fpc' = "test" /\ UNCHANGED pending
         ELSE /\ fpc' = "test"
              /\ UNCHANGED <<fixEffects, pending, fixHist>>
  /\ UNCHANGED <<cfgVars, idxVars, pureVars, wfVars, incSeverity, diff, rewrite, touchedFiles, clone,
                 ws, comments, fixResult>>

\* runInSandbox(testCommand); exitCode !== 0 fails the call
SandboxTest ==
  /\ fpc = "test"
  /\ fixEffects' = fixEffects \cup {"sandbox"}
  /\ \E exitCode \in ExitCodes :
       /\ fixHist' = [fixHist EXCEPT !.sandbox =
                        IF @ = "install_failed" THEN "test_after_failed_install"
                        ELSE IF exitCode = 0 THEN "green" ELSE "test_failed"]
       /\ IF sandboxFailed(exitCode)
            THEN fpc' = "comment" /\ pending' = Failed("sandbox_validation_failed")
            ELSE fpc' = "status" /\ UNCHANGED pending
  /\ UNCHANGED <<cfgVars, idxVars, pureVars, wfVars, incSeverity, diff, rewrite, touchedFiles, clone,
                 ws, comments, fixResult>>

\* git status --porcelain on the real clone
GitStatus ==
  /\ fpc = "status"
  /\ fixEffects' = fixEffects \cup {"git"}
  /\ fixHist' = [fixHist EXCEPT !.statusSeen = IF clone.dirty THEN "dirty" ELSE "clean"]
  /\ IF repoDirty(porcelain(clone))
       THEN fpc' = "comment" /\ pending' = Failed("dirty_repo")
       ELSE fpc' = "checkoutBase" /\ UNCHANGED pending
  /\ UNCHANGED <<cfgVars, idxVars, pureVars, wfVars, incSeverity, diff, rewrite, touchedFiles, clone,
                 ws, comments, fixResult>>

\* git checkout <GITHUB_DEFAULT_BRANCH>
CheckoutBase ==
  /\ fpc = "checkoutBase"
  /\ fixHist' = [fixHist EXCEPT !.checkouts = @ + 1]
  /\ \E ok \in BOOLEAN :
       IF ok
         THEN /\ clone' = [clone EXCEPT !.branch = "base"]
              /\ fpc' = "applyClone"
              /\ UNCHANGED pending
         ELSE /\ fpc' = "comment"
              /\ pending' = Failed("git_checkout_base_failed")
              /\ UNCHANGED clone
  /\ UNCHANGED <<cfgVars, idxVars, pureVars, wfVars, incSeverity, fixEffects, diff, rewrite,
                 touchedFiles, ws, comments, fixResult>>

\* rewrite ? applyRewriteFiles(repoPath) : applyPatch(diff, repoPath)
ApplyToClone ==
  /\ fpc = "applyClone"
  /\ IF rewrite # <<>>
       THEN LET w == {f.path : f \in Paths(rewriteWrites(rewrite))}
            IN  /\ clone' = [clone EXCEPT !.files = @ \cup w, !.written = @ \cup w,
                                          !.dirty = (w # {})]
                /\ fpc' = IF applyRewriteThrows(rewrite) THEN onThrow ELSE "branch"
       ELSE \E applied \in BOOLEAN :
              /\ applied => patchApplies(diff, clone.files)
              /\ IF applied
                   THEN /\ clone' = [clone EXCEPT
                                       !.files = @ \cup patchedPaths(diff),
                                       !.written = @ \cup patchedPaths(diff) \cup {PatchFile},
                                       !.dirty = TRUE]
                        /\ fpc' = "branch"
                   ELSE /\ clone' = [clone EXCEPT !.written = @ \cup {PatchFile}]
                        /\ fpc' = onThrow
  /\ UNCHANGED <<cfgVars, idxVars, pureVars, wfVars, incSeverity, fixEffects, diff, rewrite,
                 touchedFiles, ws, comments, pending, fixResult, fixHist>>

\* git checkout -b <AUTO_FIX_BRANCH_PREFIX>/<incident.id>
CreateBranch ==
  /\ fpc = "branch"
  /\ fixHist' = [fixHist EXCEPT !.checkouts = @ + 1]
  /\ \E ok \in BOOLEAN :
       IF ok
         THEN /\ clone' = [clone EXCEPT !.branch = "fix", !.fixBranch = TRUE]
              /\ fixEffects' = fixEffects \cup {"branch"}
              /\ fpc' = "commit"
              /\ UNCHANGED pending
         ELSE /\ fpc' = "comment"
              /\ pending' = Failed("git_checkout_failed")
              /\ UNCHANGED <<clone, fixEffects>>
  /\ UNCHANGED <<cfgVars, idxVars, pureVars, wfVars, incSeverity, diff, rewrite, touchedFiles, ws,
                 comments, fixResult>>

\* git config user.name / user.email, git add -A, git commit -m
Commit ==
  /\ fpc = "commit"
  /\ \E ok \in BOOLEAN :
       IF ok
         THEN /\ clone' = [clone EXCEPT !.dirty = FALSE]
              /\ fixEffects' = fixEffects \cup {"commit"}
              /\ fpc' = "push"
              /\ UNCHANGED pending
         ELSE /\ fpc' = "comment"
              /\ pending' = Failed("git_commit_failed")
              /\ UNCHANGED <<clone, fixEffects>>
  /\ UNCHANGED <<cfgVars, idxVars, pureVars, wfVars, incSeverity, diff, rewrite,
                 touchedFiles, ws, comments, fixResult, fixHist>>

\* git push -u origin <branch>
Push ==
  /\ fpc = "push"
  /\ \E ok \in BOOLEAN :
       IF ok
         THEN /\ clone' = [clone EXCEPT !.pushed = TRUE]
              /\ fixEffects' = fixEffects \cup {"push"}
              /\ fpc' = "pr"
              /\ UNCHANGED pending
         ELSE /\ fpc' = "comment"
              /\ pending' = Failed("git_push_failed")
              /\ UNCHANGED <<clone, fixEffects>>
  /\ UNCHANGED <<cfgVars, idxVars, pureVars, wfVars, incSeverity, diff, rewrite, touchedFiles, ws,
                 comments, fixResult, fixHist>>

\* createPullRequest: { created: false } when the configuration is missing,
\* a rejected octokit.pulls.create throws
OpenPullRequest ==
  /\ fpc = "pr"
  /\ IF ~githubConfigured
       THEN /\ fpc' = "comment"
            /\ pending' = Failed("pr_create_failed")
            /\ UNCHANGED <<fixEffects, fixHist>>
       ELSE \E accepted \in BOOLEAN :
              IF accepted
                THEN /\ fixHist' = [fixHist EXCEPT !.prs = @ + 1]
                     /\ fixEffects' = fixEffects \cup {"pr"}
                     /\ fpc' = "comment"
                     /\ pending' = [status |-> "pr_created", reason |-> "pr_created"]
                ELSE /\ fpc' = onThrow
                     /\ fixHist' = [fixHist EXCEPT !.prRejected = TRUE]
                     /\ UNCHANGED <<fixEffects, pending>>
  /\ UNCHANGED <<cfgVars, idxVars, pureVars, wfVars, incSeverity, diff, rewrite, touchedFiles, clone,
                 ws, comments, fixResult>>

\* await createIssueComment(...); return <pending>.  createIssueComment
\* returns { created: false } when the configuration is missing and throws
\* when the forge rejects the call.
PostComment ==
  /\ fpc = "comment"
  /\ fixEffects' = fixEffects \cup {"comment"}
  /\ \E accepted \in BOOLEAN :
       IF ~githubConfigured \/ accepted
         THEN /\ comments' = IF githubConfigured
                               THEN comments \cup {pending.reason} ELSE comments
              /\ fixResult' = pending
              /\ fpc' = "done"
              /\ UNCHANGED fixHist
         ELSE /\ fpc' = onThrow
              /\ fixHist' = [fixHist EXCEPT !.commentThrew = TRUE]
              /\ UNCHANGED <<comments, fixResult>>
  /\ UNCHANGED <<cfgVars, idxVars, pureVars, wfVars, incSeverity, diff, rewrite, touchedFiles, clone,
                 ws, pending>>

\* catch (error) { try { createIssueComment } catch {} return unexpected_error }
CatchUnexpected ==
  /\ fpc = "catch"
  /\ fixEffects' = fixEffects \cup {"comment"}
  /\ \E accepted \in BOOLEAN :
       comments' = IF githubConfigured /\ accepted
                     THEN comments \cup {"unexpected_error"} ELSE comments
  /\ fixResult' = Failed("unexpected_error")
  /\ fpc' = "done"
  /\ UNCHANGED <<cfgVars, idxVars, pureVars, wfVars, incSeverity, diff, rewrite, touchedFiles, clone,
                 ws, pending, fixHist>>

NextFix ==
  \/ FixGuard
  \/ ResolveRepo
  \/ RetrieveContext
  \/ GenerateProposal
  \/ GenerateRewrite
  \/ SafetyGate
  \/ CreateWorkspace
  \/ StageProposal
  \/ RegenerateRewrite
  \/ SandboxInstall
  \/ SandboxTest
  \/ GitStatus
  \/ CheckoutBase
  \/ ApplyToClone
  \/ CreateBranch
  \/ Commit
  \/ Push
  \/ OpenPullRequest
  \/ PostComment
  \/ CatchUnexpected

SpecFix == InitFix /\ [][NextFix]_vars

(***************************************************************************)
(* Repository indexer: trees, chunks and rows.                             *)
(***************************************************************************)
MaxRevs == 2

\* A file of a tree: "text" with the chunks chunkText cuts it into,
\* "skipped" (over MAX_FILE_BYTES or binary), "absent" (not in the tree or
\* ignored by the walk)
Absent == [kind |-> "absent", chunks |-> <<>>]
SkippedFile == [kind |-> "skipped", chunks |-> <<>>]
TextFile(chunks) == [kind |-> "text", chunks |-> chunks]

IndexPaths == <<"a.ts", "b.ts">>

\* trees the commits explored hold
Trees ==
  { <<fa, fb>> :
      fa \in {SkippedFile, TextFile(<<"x">>), TextFile(<<"x", "y">>), TextFile(<<"z">>)},
      fb \in {Absent, TextFile(<<"x">>)} }

\* crypto.createHash("sha256").update(content).digest("hex")
hashContent(content) == <<"sha256", content>>

Row(path, chunkIndex, content) ==
  [path |-> path, chunkIndex |-> chunkIndex, content |-> content,
   contentHash |-> hashContent(content)]

\* walkFiles: the files of the working tree, in directory order
RECURSIVE walkFiles(_, _)
walkFiles(tree, n) ==
  IF n > Len(IndexPaths) THEN <<>>
  ELSE IF tree[n].kind = "absent" THEN walkFiles(tree, n + 1)
  ELSE <<n>> \o walkFiles(tree, n + 1)

\* getRepoChunkHashes: chunk_index -> content_hash of the rows of a path
getRepoChunkHashes(table, path) == {r \in table : r.path = path}

\* buildChunks: the chunks whose stored hash differs, in index order
buildChunks(path, file, existing) ==
  LET changed(i) == ~\E r \in existing :
                       /\ r.chunkIndex = i - 1
                       /\ r.contentHash = hashContent(file.chunks[i])
      idxs == SelectSeq([i \in 1..Len(file.chunks) |-> i], changed)
  IN  [k \in 1..Len(idxs) |-> Row(path, idxs[k] - 1, file.chunks[idxs[k]])]

\* upsertRepoChunks: INSERT ... ON CONFLICT (repo_key, path, chunk_index) DO UPDATE
upsertRepoChunks(table, chunks) ==
  LET new == {chunks[k] : k \in 1..Len(chunks)}
  IN  {r \in table : ~\E c \in new : c.path = r.path /\ c.chunkIndex = r.chunkIndex}
        \cup new

\* cleanupRepoChunks: DELETE ... WHERE path = $2 AND chunk_index > $3
cleanupRepoChunks(table, path, maxIndex) ==
  {r \in table : ~(r.path = path /\ r.chunkIndex > maxIndex)}

\* deleteRepoChunksForPath
deleteRepoChunksForPath(table, path) == {r \in table : r.path # path}

\* listRepoPaths
listRepoPaths(table) == {r.path : r \in table}

\* what git rev-parse HEAD can answer when HEAD is at h
RevParseResults(h) ==
  {[code |-> 0, output |-> h], [code |-> 0, output |-> NoOutput],
   [code |-> 1, output |-> FatalOutput]}

getRepoHeadSha_IgnoresExitCode(result) == result.output

\* getRepoHeadSha: null when git fails or prints nothing
getRepoHeadSha(result) ==
  IF result.code # 0 THEN NoSha
  ELSE IF result.output = NoOutput THEN NoSha ELSE result.output

earlyReturn_Never(headSha, existingSha, hasEmbeddings) == FALSE

\* headSha && existingState?.headSha === headSha && hasEmbeddings
earlyReturn(headSha, existingSha, hasEmbeddings) ==
  headSha # NoSha /\ existingSha = headSha /\ hasEmbeddings

InitIndex ==
  /\ autoEscalateFrom = "high"
  /\ AUTO_FIX_MODE = "off"
  /\ AUTO_FIX_SEVERITY = "high"
  /\ githubConfigured = FALSE
  /\ WfIdle
  /\ FixIdle
  /\ PureIdle
  /\ revs \in [1..MaxRevs -> Trees]
  /\ head = 1
  /\ rows = {}
  /\ indexState = NoSha
  /\ ix = NoRun

\* HEAD moves to another commit while no indexer run is in progress
MoveHead ==
  /\ ix.pc \in {"idle", "complete", "failed"}
  /\ \E h \in 1..MaxRevs : h # head /\ head' = h
  /\ ix' = NoRun
  /\ UNCHANGED <<cfgVars, wfVars, fixVars, pureVars, revs, rows, indexState>>

\* indexRepository up to the walk: getRepoHeadSha (null when git fails),
\* initRepoMemory, hasRepoEmbeddings, getRepoIndexState, the early return,
\* walkFiles, listRepoPaths
StartRun ==
  /\ ix.pc \in {"idle", "complete", "failed"}
  /\ \E result \in RevParseResults(head) : \E ok \in BOOLEAN :
       LET headSha == getRepoHeadSha(result)
           hasEmbeddings == rows # {}
           run == [NoRun EXCEPT !.revParse = result, !.headSha = headSha,
                                !.stored = indexState, !.hadRows = hasEmbeddings,
                                !.prevClean = /\ ix.pc = "complete"
                                              /\ ix.headSha # NoSha
                                              /\ ~ix.swallowed
                                              /\ ix.early => ix.prevClean]
       IN  ix' = IF ~ok
                   THEN Rejected
                 ELSE IF earlyReturn(headSha, indexState, hasEmbeddings)
                   THEN [run EXCEPT !.pc = "complete", !.early = TRUE]
                 ELSE [run EXCEPT !.pc = "files",
                                  !.files = walkFiles(revs[head], 1),
                                  !.existingPaths = listRepoPaths(rows)]
  /\ UNCHANGED <<cfgVars, wfVars, fixVars, pureVars, revs, head, rows, indexState>>

\* one turn of for (const filePath of files) { try { ... } catch { warn } }:
\* `built` says buildChunks returned (every changed chunk was embedded), the
\* first `done` changed chunks are upserted, and `cleaned` says the turn got
\* through cleanupRepoChunks (or the delete of a skipped file) without a throw;
\* swallowed records a turn that threw with embeddings or statements to do
ProcessFile ==
  /\ ix.pc = "files"
  /\ ix.files # <<>>
  /\ LET n == Head(ix.files)
         path == IndexPaths[n]
         file == revs[head][n]
         existingHashes == getRepoChunkHashes(rows, path)
         chunks == IF file.kind = "text" THEN buildChunks(path, file, existingHashes)
                   ELSE <<>>
     IN  \E built \in BOOLEAN : \E done \in 0..Len(chunks) : \E cleaned \in BOOLEAN :
           /\ cleaned => done = Len(chunks)
           /\ (done > 0 \/ cleaned) => built
           /\ rows' =
                IF file.kind = "skipped"
                  THEN IF cleaned /\ existingHashes # {}
                         THEN deleteRepoChunksForPath(rows, path) ELSE rows
                  ELSE LET upserted == upsertRepoChunks(rows, SubSeq(chunks, 1, done))
                       IN  IF cleaned
                             THEN cleanupRepoChunks(upserted, path, Len(file.chunks) - 1)
                             ELSE upserted
           /\ ix' = [ix EXCEPT !.files = Tail(@),
                               !.currentPaths = @ \cup {path},
                               !.swallowed =
                                  @ \/ (~cleaned /\ (file.kind = "text" \/ existingHashes # {})),
                               !.embeds = @ + (IF built THEN Len(chunks) ELSE 0),
                               !.upserts = @ + done,
                               !.deletes = @ + (IF cleaned /\ (file.kind = "text" \/ existingHashes # {})
                                                  THEN 1 ELSE 0)]
  /\ UNCHANGED <<cfgVars, wfVars, fixVars, pureVars, revs, head, indexState>>

\* missingPaths = existingPaths.filter(p => !currentPaths.has(p)); each is
\* deleted; a throw here rejects the run
RemoveMissing ==
  /\ ix.pc = "files"
  /\ ix.files = <<>>
  /\ LET missingPaths == ix.existingPaths \ ix.currentPaths
     IN  \E deleted \in SUBSET missingPaths :
           /\ rows' = {r \in rows : r.path \notin deleted}
           /\ ix' = IF deleted = missingPaths
                      THEN [ix EXCEPT !.pc = "state", !.deletes = @ + Cardinality(deleted)]
                      ELSE Rejected
  /\ UNCHANGED <<cfgVars, wfVars, fixVars, pureVars, revs, head, indexState>>

\* if (headSha) await setRepoIndexState(repoKey, headSha)
SetState ==
  /\ ix.pc = "state"
  /\ IF ix.headSha = NoSha
       THEN /\ ix' = [ix EXCEPT !.pc = "complete"]
            /\ UNCHANGED indexState
       ELSE \E ok \in BOOLEAN :
              IF ok
                THEN /\ indexState' = ix.headSha
                     /\ ix' = [ix EXCEPT !.pc = "complete", !.wroteState = TRUE]
                ELSE /\ ix' = Rejected
                     /\ UNCHANGED indexState
  /\ UNCHANGED <<cfgVars, wfVars, fixVars, pureVars, revs, head, rows>>

\* the indexer process dies in the middle of a run
ProcessDies ==
  /\ ix.pc \in {"files", "state"}
  /\ ix' = Rejected
  /\ UNCHANGED <<cfgVars, wfVars, fixVars, pureVars, revs, head, rows, indexState>>

NextIndex ==
  \/ MoveHead
  \/ StartRun
  \/ ProcessFile
  \/ RemoveMissing
  \/ SetState
  \/ ProcessDies

SpecIndex == InitIndex /\ [][NextIndex]_vars

(***************************************************************************)
(* chunkText(content, chunkSize, overlap).                                 *)
(***************************************************************************)
MaxContent == 6
MaxChunkSize == 3
MaxOverlap == 3
\* the loop of a call that does not return is followed for this many chunks
MaxChunks == 8

Min(a, b) == IF a < b THEN a ELSE b
Max(a, b) == IF a > b THEN a ELSE b

\* a content of n characters; a character is written as its position
Content(n) == [i \in 1..n |-> i]

\* content.slice(start, end)
slice(content, start, end) == SubSeq(content, start + 1, end)

windowEnd(start, chunkSize, n) == Min(start + chunkSize, n)

nextStart_NoOverlap(end, overlap) == end

\* start = Math.max(0, end - overlap)
nextStart(end, overlap) == Max(0, end - overlap)

InitChunk ==
  /\ autoEscalateFrom = "high"
  /\ AUTO_FIX_MODE = "off"
  /\ AUTO_FIX_SEVERITY = "high"
  /\ githubConfigured = FALSE
  /\ WfIdle
  /\ FixIdle
  /\ IdxIdle
  /\ det = NotCalled
  /\ llm = NotCalled
  /\ call = NotCalled
  /\ \E n \in 0..MaxContent : \E chunkSize \in 1..MaxChunkSize : \E overlap \in 0..MaxOverlap :
       ck = [pc |-> "entry", content |-> Content(n), chunkSize |-> chunkSize,
             overlap |-> overlap, start |-> 0, chunks |-> <<>>]

\* if (content.length <= chunkSize) return [content]; ... let start = 0
ChunkEnter ==
  /\ ck.pc = "entry"
  /\ ck' = IF Len(ck.content) <= ck.chunkSize
             THEN [ck EXCEPT !.pc = "returned", !.chunks = <<ck.content>>]
             ELSE [ck EXCEPT !.pc = "loop"]
  /\ UNCHANGED <<cfgVars, wfVars, fixVars, idxVars, det, llm, call>>

\* one turn of while (start < content.length)
ChunkLoop ==
  /\ ck.pc = "loop"
  /\ Len(ck.chunks) < MaxChunks
  /\ IF ck.start < Len(ck.content)
       THEN LET end == windowEnd(ck.start, ck.chunkSize, Len(ck.content))
                chunks == Append(ck.chunks, slice(ck.content, ck.start, end))
            IN  ck' = IF end = Len(ck.content)
                        THEN [ck EXCEPT !.pc = "returned", !.chunks = chunks]
                        ELSE [ck EXCEPT !.chunks = chunks,
                                        !.start = nextStart(end, ck.overlap)]
       ELSE ck' = [ck EXCEPT !.pc = "returned"]
  /\ UNCHANGED <<cfgVars, wfVars, fixVars, idxVars, det, llm, call>>

NextChunk ==
  \/ ChunkEnter
  \/ ChunkLoop

SpecChunk == InitChunk /\ [][NextChunk]_vars

(***************************************************************************)
(* detectIncidents(logs), statement by statement.  A log event carries its *)
(* raw message, what JSON.parse makes of it, the phrases the raw text      *)
(* contains, and its timestamp, a string of decimal digits.                *)
(***************************************************************************)
MaxEvents == 2
MaxBurst == 5

\* a field of the parsed object: a string, a value of another type, or absent
Str(value) == [is |-> "string", value |-> value]
NotStr == [is |-> "other", value |-> NoField]
NoF == [is |-> "absent", value |-> NoField]

Object(message, msg, type, route, contains) ==
  [message |-> message, json |-> "object", msg |-> msg, type |-> type,
   route |-> route, contains |-> contains]

\* a message JSON.parse turns into a string, a number or null
Scalar(message, contains) ==
  [message |-> message, json |-> "scalar", msg |-> NoF, type |-> NoF,
   route |-> NoF, contains |-> contains]

\* a message JSON.parse throws on
Invalid(message, contains) ==
  [message |-> message, json |-> "invalid", msg |-> NoF, type |-> NoF,
   route |-> NoF, contains |-> contains]

Messages ==
  { Object("{msg:'Synthetic error burst',type:'error_burst',route:'/api/orders'}",
           Str({"Synthetic error burst"}), Str("error_burst"), Str("/api/orders"),
           {"Synthetic error burst"}),
    Object("{msg:'Slow response took 900ms',type:'error_burst',route:7}",
           Str({"Slow response"}), Str("error_burst"), NotStr, {"Slow response"}),
    Object("{msg:42,detail:'Slow response',route:'/slow'}",
           NotStr, NoF, Str("/slow"), {"Slow response"}),
    Object("{msg:'ok',detail:'Simulated error',type:3}",
           Str({}), NotStr, NoF, {"Simulated error"}),
    Scalar("'Simulated error'", {"Simulated error"}),
    Invalid("Failed login attempt; Simulated error {", {"Failed login attempt", "Simulated error"}),
    Invalid("Failed login attempt for bob", {"Failed login attempt"}) }

\* nanosecond timestamps of unequal width
Timestamps == { <<9>>, <<1, 0>> }

RawLogs == { [log |-> l, timestamp |-> t] : l \in Messages, t \in Timestamps }

parseLog_RawMessage(log) ==
  [type    |-> IF log.json = "object" /\ log.type.is = "string"
                 THEN log.type.value ELSE NoField,
   route   |-> IF log.json = "object" /\ log.route.is = "string"
                 THEN log.route.value ELSE NoField,
   phrases |-> log.contains]

\* lines 29-41 of extractSignal: the display message, type and route
parseLog(log) ==
  [type    |-> IF log.json = "object" /\ log.type.is = "string"
                 THEN log.type.value ELSE NoField,
   route   |-> IF log.json = "object" /\ log.route.is = "string"
                 THEN log.route.value ELSE NoField,
   phrases |-> IF log.json = "object" /\ log.msg.is = "string"
                 THEN log.msg.value ELSE log.contains]

\* string comparison by code unit, the order of Array.prototype.sort()
RECURSIVE lexLess(_, _)
lexLess(a, b) ==
  IF a = <<>> THEN b # <<>>
  ELSE IF b = <<>> THEN FALSE
  ELSE IF Head(a) # Head(b) THEN Head(a) < Head(b)
  ELSE lexLess(Tail(a), Tail(b))

\* the comparison bucket.timestamps.sort() makes
compare(a, b) == lexLess(a, b)

\* bucket.timestamps.sort(): stable insertion into the sorted prefix
RECURSIVE sort(_)
sort(ts) ==
  IF ts = <<>> THEN <<>>
  ELSE LET rest == sort(SubSeq(ts, 1, Len(ts) - 1))
           x == ts[Len(ts)]
           before == SelectSeq(rest, LAMBDA y : ~compare(x, y))
           after == SelectSeq(rest, LAMBDA y : compare(x, y))
       IN  before \o <<x>> \o after

evidence_All(messages) == messages

\* bucket.messages.slice(0, 5)
evidence(messages) == SubSeq(messages, 1, Min(5, Len(messages)))

UUIDs == {"uuid-1", "uuid-2"}

\* the inputs explored: up to MaxEvents events followed by up to MaxBurst
\* repetitions of the first of them
RECURSIVE Repeat(_, _)
Repeat(x, k) == IF k = 0 THEN <<>> ELSE <<x>> \o Repeat(x, k - 1)

DetectorInputs ==
  { base \o (IF base = <<>> THEN <<>> ELSE Repeat(base[1], k)) :
      base \in SeqsUpTo(RawLogs, MaxEvents), k \in 0..MaxBurst }

InitDetect ==
  /\ autoEscalateFrom = "high"
  /\ AUTO_FIX_MODE = "off"
  /\ AUTO_FIX_SEVERITY = "high"
  /\ githubConfigured = FALSE
  /\ WfIdle
  /\ FixIdle
  /\ IdxIdle
  /\ ck = NotCalled
  /\ llm = NotCalled
  /\ call = NotCalled
  /\ \E input \in DetectorInputs :
       det = [pc |-> "buckets", logs |-> input, next |-> 1, signals |-> <<>>,
              buckets |-> <<>>, incidents |-> <<>>]

\* one turn of for (const log of logs)
DetectBucket ==
  /\ det.pc = "buckets"
  /\ det.next <= Len(det.logs)
  /\ LET event == det.logs[det.next]
         signal == extractSignal(parseLog(event.log))
         known == {b \in 1..Len(det.buckets) : det.buckets[b].key = signal.key}
         bucket == IF known = {}
                     THEN [key |-> signal.key, severity |-> signal.severity,
                           label |-> signal.label, messages |-> <<>>,
                           timestamps |-> <<>>]
                     ELSE det.buckets[CHOOSE b \in known : TRUE]
         filled == [bucket EXCEPT !.messages = Append(@, event.log.message),
                                  !.timestamps = Append(@, event.timestamp)]
     IN  det' = [det EXCEPT
                   !.next = @ + 1,
                   !.signals = Append(@, signal),
                   !.buckets = IF known = {} THEN Append(@, filled)
                               ELSE [@ EXCEPT ![CHOOSE b \in known : TRUE] = filled]]
  /\ UNCHANGED <<cfgVars, wfVars, fixVars, idxVars, ck, llm, call>>

\* one turn of for (const [key, bucket] of buckets), in insertion order
DetectEmit ==
  /\ det.pc = "buckets"
  /\ det.next > Len(det.logs)
  /\ Len(det.incidents) < Len(det.buckets)
  /\ LET bucket == det.buckets[Len(det.incidents) + 1]
         sortedTimes == sort(bucket.timestamps)
     IN  \E uuid \in UUIDs :
           det' = [det EXCEPT !.incidents = Append(@,
                     [id        |-> uuid,
                      key       |-> bucket.key,
                      label     |-> bucket.label,
                      severity  |-> bucket.severity,
                      evidence  |-> evidence(bucket.messages),
                      firstSeen |-> sortedTimes[1],
                      lastSeen  |-> sortedTimes[Len(sortedTimes)],
                      count     |-> Len(bucket.messages)])]
  /\ UNCHANGED <<cfgVars, wfVars, fixVars, idxVars, ck, llm, call>>

\* return incidents
DetectReturn ==
  /\ det.pc = "buckets"
  /\ det.next > Len(det.logs)
  /\ Len(det.incidents) = Len(det.buckets)
  /\ det' = [det EXCEPT !.pc = "returned"]
  /\ UNCHANGED <<cfgVars, wfVars, fixVars, idxVars, ck, llm, call>>

NextDetect ==
  \/ DetectBucket
  \/ DetectEmit
  \/ DetectReturn

SpecDetect == InitDetect /\ [][NextDetect]_vars

(***************************************************************************)
(* summarizeIncident(incident) and the issue body built from its result.   *)
(* A reply is the sequence of the pieces of its text.                      *)
(***************************************************************************)
Providers == <<"openai", "anthropic", "gemini">>
ProviderSettings == {"auto", "openai", "anthropic", "gemini"}

\* an API key of the configuration: not set, set to the empty string, set
NoKey == "<undefined>"
KeyValues == {NoKey, "", "sk-test"}

\* truthiness of an optional string
truthy(key) == key # NoKey /\ key # ""

NoProvider == [provider |-> "null", model |-> "null"]

modelOf(provider) ==
  CASE provider = "openai" -> "OPENAI_MODEL"
    [] provider = "anthropic" -> "ANTHROPIC_MODEL"
    [] provider = "gemini" -> "GEMINI_MODEL"

Resolved(provider) == [provider |-> provider, model |-> modelOf(provider)]

resolveProvider_FallsBack(provider, openaiKey, anthropicKey, geminiKey) ==
  IF provider = "openai" /\ truthy(openaiKey) THEN Resolved("openai")
  ELSE IF provider = "anthropic" /\ truthy(anthropicKey) THEN Resolved("anthropic")
  ELSE IF provider = "gemini" /\ truthy(geminiKey) THEN Resolved("gemini")
  ELSE IF truthy(openaiKey) THEN Resolved("openai")
  ELSE IF truthy(anthropicKey) THEN Resolved("anthropic")
  ELSE IF truthy(geminiKey) THEN Resolved("gemini")
  ELSE NoProvider

resolveProvider(provider, openaiKey, anthropicKey, geminiKey) ==
  IF provider = "openai"
    THEN IF truthy(openaiKey) THEN Resolved("openai") ELSE NoProvider
  ELSE IF provider = "anthropic"
    THEN IF truthy(anthropicKey) THEN Resolved("anthropic") ELSE NoProvider
  ELSE IF provider = "gemini"
    THEN IF truthy(geminiKey) THEN Resolved("gemini") ELSE NoProvider
  ELSE IF truthy(openaiKey) THEN Resolved("openai")
  ELSE IF truthy(anthropicKey) THEN Resolved("anthropic")
  ELSE IF truthy(geminiKey) THEN Resolved("gemini")
  ELSE NoProvider

\* the replies explored: "", "not json", a bare payload, a payload inside
\* prose, payloads that fail the schema or JSON.parse, braces in the wrong
\* order, prose with braces before the payload
Replies ==
  { <<>>,
    <<"prose">>,
    <<"{", "valid_fields", "}">>,
    <<"prose", "{", "valid_fields", "}", "prose">>,
    <<"{", "invalid_fields", "}">>,
    <<"{", "}">>,
    <<"{", "prose", "}">>,
    <<"}", "prose", "{">>,
    <<"prose", "{">>,
    <<"{", "prose", "}", "{", "valid_fields", "}">> }

\* text.indexOf(piece): 0-based, -1 when absent
indexOf(text, piece) ==
  IF \E i \in 1..Len(text) : text[i] = piece
    THEN (CHOOSE i \in 1..Len(text) :
            text[i] = piece /\ \A j \in 1..(i - 1) : text[j] # piece) - 1
    ELSE -1

lastIndexOf(text, piece) ==
  IF \E i \in 1..Len(text) : text[i] = piece
    THEN (CHOOSE i \in 1..Len(text) :
            text[i] = piece /\ \A j \in (i + 1)..Len(text) : text[j] # piece) - 1
    ELSE -1

Thrown == <<"Error">>

\* extractJson: the text from the first "{" to the last "}", or a throw
extractJson(text) ==
  LET start == indexOf(text, "{")
      end == lastIndexOf(text, "}")
  IN  IF start = -1 \/ end = -1 \/ end <= start THEN Thrown
      ELSE SubSeq(text, start + 1, end + 1)

\* JSON.parse(json) returns
jsonParses(json) ==
  \/ json = <<"{", "}">>
  \/ Len(json) = 3 /\ json[1] = "{" /\ json[3] = "}"
       /\ json[2] \in {"valid_fields", "invalid_fields"}

schemaAccepts_Anything(json) == TRUE

\* SummarySchema.parse(value) returns
schemaAccepts(json) == Len(json) = 3 /\ json[2] = "valid_fields"

\* the Status line of the "LLM Enrichment" section of the issue body
llmSection(value) == IF value # "null" THEN "generated" ELSE "not_configured_or_failed"

InitLlm ==
  /\ autoEscalateFrom = "high"
  /\ AUTO_FIX_MODE = "off"
  /\ AUTO_FIX_SEVERITY = "high"
  /\ githubConfigured = FALSE
  /\ WfIdle
  /\ FixIdle
  /\ IdxIdle
  /\ ck = NotCalled
  /\ det = NotCalled
  /\ call = NotCalled
  /\ \E provider \in ProviderSettings : \E keys \in [1..3 -> KeyValues] :
       llm = [pc |-> "resolve", LLM_PROVIDER |-> provider, keys |-> keys,
              resolved |-> NoProvider, called |-> "no", raw |-> <<>>,
              result |-> "none", issue |-> [called |-> FALSE, status |-> "none",
                                            created |-> FALSE]]

\* resolveProvider(...); if (!resolved) return null
LlmResolve ==
  /\ llm.pc = "resolve"
  /\ LET resolved == resolveProvider(llm.LLM_PROVIDER, llm.keys[1], llm.keys[2], llm.keys[3])
     IN  llm' = IF resolved = NoProvider
                  THEN [llm EXCEPT !.pc = "returned", !.result = "null"]
                  ELSE [llm EXCEPT !.pc = "call", !.resolved = resolved]
  /\ UNCHANGED <<cfgVars, wfVars, fixVars, idxVars, ck, det, call>>

\* the provider call: it throws, or it returns the text of a reply
LlmCall ==
  /\ llm.pc = "call"
  /\ \/ llm' = [llm EXCEPT !.pc = "returned", !.called = "threw", !.result = "null"]
     \/ \E raw \in Replies :
          llm' = [llm EXCEPT !.pc = "parse", !.called = "replied", !.raw = raw]
  /\ UNCHANGED <<cfgVars, wfVars, fixVars, idxVars, ck, det, call>>

\* extractJson, JSON.parse, SummarySchema.parse, mapSummary; catch: return null
LlmParse ==
  /\ llm.pc = "parse"
  /\ LET json == extractJson(llm.raw)
     IN  llm' = [llm EXCEPT
                   !.pc = "returned",
                   !.result = IF json = Thrown THEN "null"
                              ELSE IF ~jsonParses(json) THEN "null"
                              ELSE IF ~schemaAccepts(json) THEN "null"
                              ELSE "summary"]
  /\ UNCHANGED <<cfgVars, wfVars, fixVars, idxVars, ck, det, call>>

\* createIssueForIncident(incident, summary): the body, then createIssue
LlmIssue ==
  /\ llm.pc = "returned"
  /\ \E outcome \in {"created", "not_configured", "throws"} :
       llm' = [llm EXCEPT !.pc = "issue",
                          !.issue = [called |-> TRUE, status |-> llmSection(llm.result),
                                     created |-> outcome = "created"]]
  /\ UNCHANGED <<cfgVars, wfVars, fixVars, idxVars, ck, det, call>>

NextLlm ==
  \/ LlmResolve
  \/ LlmCall
  \/ LlmParse
  \/ LlmIssue

SpecLlm == InitLlm /\ [][NextLlm]_vars

(***************************************************************************)
(* runInSandbox (tools/dockerSandbox.ts): one call, the child process and  *)
(* the events the runtime delivers to the listeners of the call.           *)
(***************************************************************************)
\* most "data" events delivered to one call
MaxData == 4

\* command.timeoutMs: <<>> when the field is absent
TimeoutSettings == {<<>>, <<0>>, <<900000>>}

\* what spawn("docker", args, ...) does: "child": the process runs;
\* "errorLater": it returns a child with its streams and emits "error" on a
\* later tick (ENOENT, EACCES, EAGAIN); "noStreams": it returns a child
\* whose stdout and stderr were never attached and emits "error" on a later
\* tick (EMFILE, ENFILE); "throws": it throws (any other errno, an invalid
\* argument)
SpawnOutcomes == {"child", "errorLater", "noStreams", "throws"}

\* the code of a "close" event: <<>> is null, the process ended on a signal
CloseCodes == {<<>>, <<0>>, <<1>>, <<2>>, <<137>>}

\* command.timeoutMs && command.timeoutMs > 0
timerWanted(timeoutMs) == timeoutMs # <<>> /\ timeoutMs[1] > 0

\* code ?? 1
exitCodeOf(code) == IF code = <<>> THEN 1 ELSE code[1]

InitSandbox ==
  /\ autoEscalateFrom = "high"
  /\ AUTO_FIX_MODE = "off"
  /\ AUTO_FIX_SEVERITY = "high"
  /\ githubConfigured = FALSE
  /\ WfIdle
  /\ FixIdle
  /\ IdxIdle
  /\ ck = NotCalled
  /\ det = NotCalled
  /\ llm = NotCalled
  /\ \E timeoutMs \in TimeoutSettings :
       call = [pc |-> "runInSandbox", timeoutMs |-> timeoutMs, spawned |-> "none",
               child |-> "none", timer |-> "none", output |-> 0,
               promise |-> "pending", exitCode |-> 0, closeCode |-> <<>>,
               kills |-> 0, killsAfterClose |-> 0]

\* the executor of the promise: spawn, setTimeout, the four listeners.  A
\* throw inside the executor rejects the promise.
SandboxSpawn ==
  /\ call.pc = "runInSandbox"
  /\ \E outcome \in SpawnOutcomes :
       call' = IF outcome = "throws"
                 THEN [call EXCEPT !.pc = "listening", !.spawned = outcome,
                                   !.promise = "rejected"]
               ELSE IF outcome = "noStreams"
                 THEN [call EXCEPT !.pc = "listening", !.spawned = outcome,
                                   !.child = "unspawned",
                                   !.timer = IF timerWanted(call.timeoutMs)
                                               THEN "armed" ELSE "none",
                                   !.promise = "rejected"]
               ELSE [call EXCEPT !.pc = "listening", !.spawned = outcome,
                                 !.child = IF outcome = "child" THEN "running"
                                           ELSE "unspawned",
                                 !.timer = IF timerWanted(call.timeoutMs)
                                             THEN "armed" ELSE "none"]
  /\ UNCHANGED <<cfgVars, wfVars, fixVars, idxVars, ck, det, llm>>

\* child.stdout.on("data"), child.stderr.on("data"): output += data
SandboxData ==
  /\ call.pc = "listening"
  /\ call.spawned = "child"
  /\ call.child \in {"running", "killed"}
  /\ call.output < MaxData
  /\ call' = [call EXCEPT !.output = @ + 1]
  /\ UNCHANGED <<cfgVars, wfVars, fixVars, idxVars, ck, det, llm>>

\* the callback of setTimeout: child.kill("SIGKILL")
SandboxTimeout ==
  /\ call.pc = "listening"
  /\ call.timer = "armed"
  /\ call' = [call EXCEPT
                !.timer = "fired",
                !.kills = @ + 1,
                !.killsAfterClose = IF call.child = "closed" THEN @ + 1 ELSE @,
                !.child = IF call.child = "running" THEN "killed" ELSE @]
  /\ UNCHANGED <<cfgVars, wfVars, fixVars, idxVars, ck, det, llm>>

\* child.on("close"): clearTimeout(timer), resolve({ exitCode: code ?? 1 }).
\* A process that ended on the signal closes with a null code.
SandboxClose ==
  /\ call.pc = "listening"
  /\ call.spawned = "child"
  /\ call.child \in {"running", "killed"}
  /\ \E code \in CloseCodes :
       /\ code = <<>> => call.child = "killed"
       /\ call' = [call EXCEPT
                     !.child = "closed",
                     !.closeCode = code,
                     !.timer = IF @ = "armed" THEN "cleared" ELSE @,
                     !.promise = IF @ = "pending" THEN "resolved" ELSE @,
                     !.exitCode = IF call.promise = "pending"
                                    THEN exitCodeOf(code) ELSE @]
  /\ UNCHANGED <<cfgVars, wfVars, fixVars, idxVars, ck, det, llm>>

\* child.on("error"): clearTimeout(timer), resolve({ exitCode: 1 })
SandboxError ==
  /\ call.pc = "listening"
  /\ call.spawned = "errorLater"
  /\ call.child = "unspawned"
  /\ call' = [call EXCEPT
                !.child = "failed",
                !.timer = IF @ = "armed" THEN "cleared" ELSE @,
                !.promise = IF @ = "pending" THEN "resolved" ELSE @,
                !.exitCode = IF call.promise = "pending" THEN 1 ELSE @]
  /\ UNCHANGED <<cfgVars, wfVars, fixVars, idxVars, ck, det, llm>>

NextSandbox ==
  \/ SandboxSpawn
  \/ SandboxData
  \/ SandboxTimeout
  \/ SandboxClose
  \/ SandboxError

SpecSandbox == InitSandbox /\ [][NextSandbox]_vars

(***************************************************************************)
(* getCachedRepoPath (rag/repoCache.ts): one call against the cache        *)
(* directory, the git commands it runs and what they answer.               *)
(***************************************************************************)
\* options?.refresh and config.RAG_REPO_REFRESH
RefreshOptions == {"undefined", "pull", "reclone"}
RefreshSettings == {"pull", "reclone"}

\* exit codes of git as execGit reports them
GitCodes == {0, 1, 128}

\* options?.refresh ?? config.RAG_REPO_REFRESH
refreshModeOf(option, setting) == IF option # "undefined" THEN option ELSE setting

needsClone_OnlyWhenAbsent(hasRepo, refreshMode) == ~hasRepo

\* !hasRepo || refreshMode === "reclone"
needsClone(hasRepo, refreshMode) == ~hasRepo \/ refreshMode = "reclone"

\* thrown / returned by the call
CacheThrows(c, message) == [c EXCEPT !.pc = "thrown", !.error = message]

InitCache ==
  /\ autoEscalateFrom = "high"
  /\ AUTO_FIX_MODE = "off"
  /\ AUTO_FIX_SEVERITY = "high"
  /\ githubConfigured = FALSE
  /\ WfIdle
  /\ FixIdle
  /\ IdxIdle
  /\ ck = NotCalled
  /\ det = NotCalled
  /\ llm = NotCalled
  /\ \E target \in BOOLEAN : \E dir \in BOOLEAN :
     \E option \in RefreshOptions : \E setting \in RefreshSettings :
       call = [pc |-> "getCachedRepoPath", target |-> target, dirAtCall |-> dir,
               dir |-> dir, option |-> option, setting |-> setting,
               hasRepo |-> FALSE, removed |-> FALSE, ran |-> <<>>,
               error |-> "none"]

\* resolveRepoTarget, ensureDir(cacheRoot), exists(repoDir), the branch taken
CacheResolve ==
  /\ call.pc = "getCachedRepoPath"
  /\ IF ~call.target
       THEN call' = CacheThrows(call, "Missing repo configuration for repo cache")
       ELSE \E ensured \in BOOLEAN :
              call' = IF ~ensured THEN CacheThrows(call, "mkdir")
                      ELSE IF needsClone(call.dir, refreshModeOf(call.option, call.setting))
                        THEN [call EXCEPT !.hasRepo = call.dir,
                                          !.pc = IF call.dir THEN "rm" ELSE "clone"]
                        ELSE [call EXCEPT !.hasRepo = call.dir, !.pc = "fetch"]
  /\ UNCHANGED <<cfgVars, wfVars, fixVars, idxVars, ck, det, llm>>

\* if (hasRepo) await fs.rm(repoDir, { recursive: true, force: true })
CacheRemove ==
  /\ call.pc = "rm"
  /\ \E done \in BOOLEAN :
       call' = IF done THEN [call EXCEPT !.pc = "clone", !.dir = FALSE, !.removed = TRUE]
               ELSE CacheThrows(call, "rm")
  /\ UNCHANGED <<cfgVars, wfVars, fixVars, idxVars, ck, det, llm>>

\* execGit(["clone", "--depth", "1", "--branch", branch, cloneUrl, repoDir])
CacheClone ==
  /\ call.pc = "clone"
  /\ \E code \in GitCodes :
       LET ran == Append(call.ran, [cmd |-> "clone", code |-> code, dir |-> call.dir])
       IN  call' = IF code # 0
                     THEN [CacheThrows(call, "git clone failed") EXCEPT !.ran = ran]
                     ELSE [call EXCEPT !.pc = "returned", !.ran = ran, !.dir = TRUE]
  /\ UNCHANGED <<cfgVars, wfVars, fixVars, idxVars, ck, det, llm>>

\* execGit(["fetch", "origin", branch], repoDir)
CacheFetch ==
  /\ call.pc = "fetch"
  /\ \E code \in GitCodes :
       LET ran == Append(call.ran, [cmd |-> "fetch", code |-> code, dir |-> call.dir])
       IN  call' = IF code # 0
                     THEN [CacheThrows(call, "git fetch failed") EXCEPT !.ran = ran]
                     ELSE [call EXCEPT !.pc = "reset", !.ran = ran]
  /\ UNCHANGED <<cfgVars, wfVars, fixVars, idxVars, ck, det, llm>>

\* execGit(["reset", "--hard", `origin/${branch}`], repoDir)
CacheReset ==
  /\ call.pc = "reset"
  /\ \E code \in GitCodes :
       LET ran == Append(call.ran, [cmd |-> "reset", code |-> code, dir |-> call.dir])
       IN  call' = IF code # 0
                     THEN [CacheThrows(call, "git reset failed") EXCEPT !.ran = ran]
                     ELSE [call EXCEPT !.pc = "returned", !.ran = ran]
  /\ UNCHANGED <<cfgVars, wfVars, fixVars, idxVars, ck, det, llm>>

NextCache ==
  \/ CacheResolve
  \/ CacheRemove
  \/ CacheClone
  \/ CacheFetch
  \/ CacheReset

SpecCache == InitCache /\ [][NextCache]_vars

(***************************************************************************)
(* retrieveRepoContext (rag/retrieveRepo.ts) and searchRepoChunks           *)
(* (memory/repo.ts): one call against the rows of repo_embeddings.         *)
(* Distances and scores are written in tenths.                             *)
(***************************************************************************)
\* largest RAG_TOP_K explored
MaxTopK == 2

\* the rows of repo_embeddings: (repo_key, path)
StoredSlots == { <<"owner/repo", "a">>, <<"owner/repo", "b">>, <<"owner/repo", "c">>,
                 <<"owner/repo", "d">>, <<"other/repo", "e">> }

\* embedding of a row: <<>> is NULL, <<d>> a vector at distance d of the query
StoredEmbeddings == {<<>>, <<0>>, <<5>>, <<12>>}

\* config.RAG_MIN_SCORE: <<>> when the configuration has no such field
MinScoreSettings == {<<>>, <<5>>}

\* minScore = 0 (default of the parameter)
minScoreOf(setting) == IF setting = <<>> THEN 0 ELSE setting[1]

\* (1 - (embedding <-> $1)) AS score
scoreOf(embedding) == 10 - embedding[1]

matches_AnyRepo(store, slot, repoKey, minScore) ==
  /\ store[slot] # <<>>
  /\ scoreOf(store[slot]) >= minScore

\* WHERE repo_key = $2 AND embedding IS NOT NULL AND score >= $3
matches(store, slot, repoKey, minScore) ==
  /\ slot[1] = repoKey
  /\ store[slot] # <<>>
  /\ scoreOf(store[slot]) >= minScore

\* ORDER BY embedding <-> $1 LIMIT $4, rows.map(...): every answer the
\* database may give (rows at equal distance come in any order)
searchRepoChunks(store, limit, repoKey, minScore) ==
  LET hits == {slot \in StoredSlots : matches(store, slot, repoKey, minScore)}
      n == Cardinality(hits)
      ordered == {s \in [1..n -> hits] :
                    /\ \A i, j \in 1..n : i # j => s[i] # s[j]
                    /\ \A i \in 1..(n - 1) : store[s[i]][1] <= store[s[i + 1]][1]}
  IN  { [i \in 1..Min(limit, n) |-> [path |-> s[i][2], score |-> scoreOf(store[s[i]])]] :
          s \in ordered }

InitRetrieve ==
  /\ autoEscalateFrom = "high"
  /\ AUTO_FIX_MODE = "off"
  /\ AUTO_FIX_SEVERITY = "high"
  /\ githubConfigured = FALSE
  /\ WfIdle
  /\ FixIdle
  /\ IdxIdle
  /\ ck = NotCalled
  /\ det = NotCalled
  /\ llm = NotCalled
  /\ \E store \in [StoredSlots -> StoredEmbeddings] : \E topK \in 1..MaxTopK :
     \E minScore \in MinScoreSettings : \E repoKey \in {"null", "owner/repo"} :
       call = [pc |-> "retrieveRepoContext", store |-> store, RAG_TOP_K |-> topK,
               RAG_MIN_SCORE |-> minScore, repoKey |-> repoKey,
               embedding |-> "none", searches |-> 0, result |-> <<>>]

\* await initRepoMemory(); resolveRepoKey(); if (!repoKey) return []
RetrieveResolve ==
  /\ call.pc = "retrieveRepoContext"
  /\ \E initialised \in BOOLEAN :
       call' = IF ~initialised THEN [call EXCEPT !.pc = "thrown"]
               ELSE IF call.repoKey = "null" THEN [call EXCEPT !.pc = "returned"]
               ELSE [call EXCEPT !.pc = "embed"]
  /\ UNCHANGED <<cfgVars, wfVars, fixVars, idxVars, ck, det, llm>>

\* await embedText(query); if (!embedding) return []
RetrieveEmbed ==
  /\ call.pc = "embed"
  /\ \E embedding \in {"null", "vector", "throws"} :
       call' = [call EXCEPT !.embedding = embedding,
                            !.pc = CASE embedding = "null" -> "returned"
                                     [] embedding = "vector" -> "search"
                                     [] embedding = "throws" -> "thrown"]
  /\ UNCHANGED <<cfgVars, wfVars, fixVars, idxVars, ck, det, llm>>

\* return searchRepoChunks(embedding, RAG_TOP_K, repoKey, RAG_MIN_SCORE)
RetrieveSearch ==
  /\ call.pc = "search"
  /\ \/ call' = [call EXCEPT !.pc = "thrown", !.searches = @ + 1]
     \/ \E found \in searchRepoChunks(call.store, call.RAG_TOP_K, call.repoKey,
                                     minScoreOf(call.RAG_MIN_SCORE)) :
          call' = [call EXCEPT !.pc = "returned", !.searches = @ + 1, !.result = found]
  /\ UNCHANGED <<cfgVars, wfVars, fixVars, idxVars, ck, det, llm>>

NextRetrieve ==
  \/ RetrieveResolve
  \/ RetrieveEmbed
  \/ RetrieveSearch

SpecRetrieve == InitRetrieve /\ [][NextRetrieve]_vars

(***************************************************************************)
(* The operations that need the forge configuration (lib/github.ts,        *)
(* rag/repoCache.ts, autoFix.ts and the workflow that calls them), under   *)
(* one configuration.  Only the forge and git answer nondeterministically. *)
(***************************************************************************)
\* what is called: one operation on its own, or a run of the workflow with
\* one incident at or above the escalation threshold
EntryPoints == {"refreshRepoCache", "createIssue", "createIssueComment",
                "createPullRequest", "autoFixIncident", "workflow"}

Outcome(op, kind, reason) == [op |-> op, kind |-> kind, reason |-> reason]

missingForge_Throws(op) == Outcome(op, "thrown", "Missing GitHub configuration")

\* return { created: false, reason: "Missing GitHub configuration" }
missingForge(op) == Outcome(op, "not_created", "Missing GitHub configuration")

\* createIssue, createIssueComment, createPullRequest: the configuration
\* test, then the request, which the forge accepts or octokit throws on
forgeCall(c, op) ==
  IF ~c.GITHUB_TOKEN \/ ~c.target
    THEN {missingForge(op)}
    ELSE {Outcome(op, "created", "none"), Outcome(op, "thrown", "HttpError")}

\* getCachedRepoPath: no target throws; the git commands succeed or throw
getCachedRepoPath(c, op) ==
  IF ~c.target
    THEN {Outcome(op, "thrown", "Missing repo configuration for repo cache")}
    ELSE {Outcome(op, "ok", "none"), Outcome(op, "thrown", "git failed")}

\* the activity refreshRepoCache(): Promise<{ ok: boolean }>
refreshRepoCache(c) ==
  {IF r.kind = "thrown" THEN Outcome("refreshRepoCache", "skipped", r.reason) ELSE r :
     r \in getCachedRepoPath(c, "refreshRepoCache")}

\* where the caller goes with the result r of the operation at pc
forgeNext(c, r) ==
  IF c.entry # "workflow" THEN "done"
  ELSE IF r.kind = "thrown" THEN "failed"
  ELSE CASE c.pc = "refreshRepoCache" -> "createIssue"
         [] c.pc = "createIssue" ->
              IF r.kind = "created" THEN "autoFixIncident" ELSE "returned"
         [] OTHER -> "returned"

Answered(c, r) == [c EXCEPT !.pc = forgeNext(c, r), !.results = Append(@, r)]

InitForge ==
  /\ autoEscalateFrom = "high"
  /\ AUTO_FIX_MODE = "off"
  /\ AUTO_FIX_SEVERITY = "high"
  /\ githubConfigured = FALSE
  /\ WfIdle
  /\ FixIdle
  /\ IdxIdle
  /\ ck = NotCalled
  /\ det = NotCalled
  /\ llm = NotCalled
  /\ \E entry \in EntryPoints : \E token, target, repoPath, enabled \in BOOLEAN :
       call = [pc |-> IF entry = "workflow" THEN "refreshRepoCache" ELSE entry,
               entry |-> entry, GITHUB_TOKEN |-> token, target |-> target,
               AUTO_FIX_REPO_PATH |-> repoPath, shouldAutoFix |-> enabled,
               results |-> <<>>]

\* await refreshRepoCache()
ForgeRefresh ==
  /\ call.pc = "refreshRepoCache"
  /\ \E r \in refreshRepoCache(call) : call' = Answered(call, r)
  /\ UNCHANGED <<cfgVars, wfVars, fixVars, idxVars, ck, det, llm>>

\* createIssue(input), createIssueComment(n, body), createPullRequest(input)
ForgeRequest ==
  /\ call.pc \in {"createIssue", "createIssueComment", "createPullRequest"}
  /\ \E r \in forgeCall(call, call.pc) : call' = Answered(call, r)
  /\ UNCHANGED <<cfgVars, wfVars, fixVars, idxVars, ck, det, llm>>

\* autoFixIncident: the guard, then AUTO_FIX_REPO_PATH or getCachedRepoPath()
ForgeAutoFix ==
  /\ call.pc = "autoFixIncident"
  /\ IF ~call.shouldAutoFix
       THEN call' = Answered(call, Outcome("autoFixIncident", "skipped",
                                           "auto_fix_disabled_or_severity"))
       ELSE \E r \in IF call.AUTO_FIX_REPO_PATH
                       THEN {Outcome("getCachedRepoPath", "ok", "none")}
                       ELSE getCachedRepoPath(call, "getCachedRepoPath") :
              call' = [call EXCEPT !.pc = IF r.kind = "thrown" THEN "catch" ELSE "engine"]
  /\ UNCHANGED <<cfgVars, wfVars, fixVars, idxVars, ck, det, llm>>

\* the stages of the engine: one of them comments and returns failed, or
\* throws, or the engine reaches createPullRequest and its last comment
ForgeEngine ==
  /\ call.pc = "engine"
  /\ \E stage \in {"stage_failed", "throws", "pull_request"} :
     \E pr \in forgeCall(call, "createPullRequest") :
     \E comment \in forgeCall(call, "createIssueComment") :
       call' = IF \/ stage = "throws"
                  \/ stage = "pull_request" /\ pr.kind = "thrown"
                  \/ comment.kind = "thrown"
                 THEN [call EXCEPT !.pc = "catch"]
               ELSE IF stage = "stage_failed"
                 THEN Answered(call, Outcome("autoFixIncident", "failed", "invalid_diff"))
               ELSE IF pr.kind = "not_created"
                 THEN Answered(call, Outcome("autoFixIncident", "failed", "pr_create_failed"))
               ELSE Answered(call, Outcome("autoFixIncident", "pr_created", "none"))
  /\ UNCHANGED <<cfgVars, wfVars, fixVars, idxVars, ck, det, llm>>

\* catch (error): a comment whose failure is ignored, then unexpected_error
ForgeCatch ==
  /\ call.pc = "catch"
  /\ call' = Answered(call, Outcome("autoFixIncident", "failed", "unexpected_error"))
  /\ UNCHANGED <<cfgVars, wfVars, fixVars, idxVars, ck, det, llm>>

NextForge ==
  \/ ForgeRefresh
  \/ ForgeRequest
  \/ ForgeAutoFix
  \/ ForgeEngine
  \/ ForgeCatch

SpecForge == InitForge /\ [][NextForge]_vars

(***************************************************************************)
(* autoFixIncident and the revisions of the real clone: which revision of  *)
(* the default branch the working tree holds, which one is copied to the   *)
(* staging workspace and tested, and which one the pushed commit is made   *)
(* on.  Revisions of the default branch are numbered 1..MaxRevs; a tree is *)
(* a revision plus, possibly, a fix on top of it.                          *)
(***************************************************************************)
Tree(rev, fix) == [rev |-> rev, fix |-> fix]
NoTree == Tree(NoSha, "none")

\* the branches of the clone: the default branch, the branch a previous
\* incident's fix was committed on, and <AUTO_FIX_BRANCH_PREFIX>/<incident.id>
Branches == {"main", "prev", "fix"}

\* git status --porcelain: nothing, modified tracked files, untracked files
Changes == {"clean", "modified", "untracked"}

NoClone == [exists |-> FALSE, head |-> "main",
            at |-> [b \in Branches |-> NoTree], tracking |-> NoSha,
            tree |-> NoTree, changes |-> "clean"]

\* the clones a call can find at repoPath when the default branch of origin
\* is at revision origin: none; one on the default branch; one a previous
\* pr_created call left on its fix branch, which a later refresh (fetch and
\* reset --hard origin/<branch>, run while that branch was checked out) may
\* have moved to a newer revision than the local default branch
ClonesAt(origin) ==
  {NoClone} \cup
  { [exists |-> TRUE, head |-> h,
     at |-> [b \in Branches |-> CASE b = "main" -> Tree(m, "none")
                                  [] b = "prev" -> p
                                  [] OTHER -> NoTree],
     tracking |-> t,
     tree |-> IF h = "main" THEN Tree(m, "none") ELSE p,
     changes |-> ch] :
      m \in 1..origin, t \in 1..origin, h \in {"main", "prev"},
      p \in {NoTree} \cup {Tree(r, f) : r \in 1..origin, f \in {"none", "prev"}},
      ch \in Changes }

ReachableClone(cl) ==
  /\ cl.exists =>
       /\ cl.at["main"].rev <= cl.tracking
       /\ cl.head = "prev" => cl.at["prev"] # NoTree
       /\ cl.at["prev"] # NoTree =>
            IF cl.at["prev"].fix = "prev"
              THEN cl.at["prev"].rev = cl.at["main"].rev
              ELSE cl.at["prev"].rev = cl.tracking

\* git clone --depth 1 --branch <branch>
cloned(origin) ==
  [exists |-> TRUE, head |-> "main",
   at |-> [b \in Branches |-> IF b = "main" THEN Tree(origin, "none") ELSE NoTree],
   tracking |-> origin, tree |-> Tree(origin, "none"), changes |-> "clean"]

\* git fetch origin <branch>
fetched(cl, origin) == [cl EXCEPT !.tracking = origin]

\* git reset --hard origin/<branch>: the checked-out branch and the tracked
\* files move to origin/<branch>; untracked files stay
resetHard(cl) ==
  [cl EXCEPT !.at[cl.head] = Tree(cl.tracking, "none"),
             !.tree = Tree(cl.tracking, "none"),
             !.changes = IF @ = "modified" THEN "clean" ELSE @]

\* git checkout <branch> of a clean tree
checkout(cl, branch) == [cl EXCEPT !.head = branch, !.tree = cl.at[branch]]

\* applyRewriteFiles / applyPatch in a directory holding tree
withProposal(tree) == Tree(tree.rev, "this")

\* where a stage applies the proposal: the copy under .workspaces while
\* staging, repoPath when promoting
applyTarget_AlwaysClone(stage) == "clone"

applyTarget(stage) == IF stage = "stage" THEN "workspace" ELSE "clone"

\* git checkout -b <branchName>
checkoutNew(cl, branch) == [cl EXCEPT !.head = branch, !.at[branch] = cl.at[cl.head]]

\* git add -A, git commit
committed(cl) == [cl EXCEPT !.at[cl.head] = cl.tree, !.changes = "clean"]

\* the failures returned before anything is staged, and while staging
ProposalFailures == {"diff_too_large", "invalid_diff", "rewrite_invalid", "unsafe_files"}
StagingFailures == {"invalid_diff", "rewrite_invalid"}
SandboxFailures == {"sandbox_install_failed", "sandbox_validation_failed"}

PrePromotion == ProposalFailures \cup SandboxFailures \cup {"dirty_repo"}

Fails(c, reason) == [c EXCEPT !.pc = "comment", !.pending = Failed(reason)]
Throws(c) == [c EXCEPT !.pc = onThrow]

InitPromote ==
  /\ autoEscalateFrom = "high"
  /\ AUTO_FIX_MODE = "off"
  /\ AUTO_FIX_SEVERITY = "high"
  /\ githubConfigured = FALSE
  /\ WfIdle
  /\ FixIdle
  /\ IdxIdle
  /\ ck = NotCalled /\ det = NotCalled /\ llm = NotCalled
  /\ \E origin \in 1..MaxRevs : \E cl \in ClonesAt(origin) :
     \E explicit \in BOOLEAN : \E wanted \in BOOLEAN :
     \E refresh \in {"pull", "reclone"} :
       /\ ReachableClone(cl)
       /\ call = [pc |-> "autoFixIncident", shouldAutoFix |-> wanted,
                  AUTO_FIX_REPO_PATH |-> explicit, RAG_REPO_REFRESH |-> refresh,
                  origin |-> origin, clone |-> cl, before |-> cl, resolved |-> cl,
                  staged |-> NoTree, tested |-> NoTree, base |-> NoTree,
                  pushed |-> NoTree, prs |-> 0,
                  pending |-> NoResult, result |-> NoResult]

PromoteFrame == UNCHANGED <<cfgVars, wfVars, fixVars, idxVars, ck, det, llm>>

\* if (!shouldAutoFix(input.incident.severity)) return { status: "skipped" }
PromoteGuard ==
  /\ call.pc = "autoFixIncident"
  /\ call' = IF call.shouldAutoFix
               THEN [call EXCEPT !.pc = "resolve"]
               ELSE [call EXCEPT !.pc = "done",
                                 !.result = [status |-> "skipped",
                                             reason |-> "auto_fix_disabled_or_severity"]]
  /\ PromoteFrame

\* repoPath = AUTO_FIX_REPO_PATH, else getCachedRepoPath(): clone when there
\* is no clone or the refresh mode is reclone, else fetch
PromoteResolve ==
  /\ call.pc = "resolve"
  /\ \/ /\ call.AUTO_FIX_REPO_PATH
        /\ call' = [call EXCEPT !.pc = "propose"]
     \/ /\ ~call.AUTO_FIX_REPO_PATH
        /\ needsClone(call.clone.exists, call.RAG_REPO_REFRESH)
        /\ \E code \in GitCodes :
             call' = IF code = 0
                       THEN [call EXCEPT !.pc = "propose",
                                         !.clone = cloned(call.origin),
                                         !.resolved = cloned(call.origin)]
                       ELSE [call EXCEPT !.pc = onThrow, !.clone = NoClone,
                                         !.resolved = NoClone]
     \/ /\ ~call.AUTO_FIX_REPO_PATH
        /\ ~needsClone(call.clone.exists, call.RAG_REPO_REFRESH)
        /\ \E code \in GitCodes :
             call' = IF code = 0
                       THEN [call EXCEPT !.pc = "reset",
                                         !.clone = fetched(call.clone, call.origin)]
                       ELSE Throws(call)
  /\ PromoteFrame

\* git reset --hard origin/<branch>
PromoteReset ==
  /\ call.pc = "reset"
  /\ \E code \in GitCodes :
       call' = IF code = 0
                 THEN [call EXCEPT !.pc = "propose",
                                   !.clone = resetHard(call.clone),
                                   !.resolved = resetHard(call.clone)]
                 ELSE Throws(call)
  /\ PromoteFrame

\* retrieval, proposal, validation and the safety gate: a failure with its
\* comment, a throw, or a proposal to stage
PromotePropose ==
  /\ call.pc = "propose"
  /\ \/ \E reason \in ProposalFailures : call' = Fails(call, reason)
     \/ call' = Throws(call)
     \/ call' = [call EXCEPT !.pc = "stage"]
  /\ PromoteFrame

\* copyRepo(repoPath, workDir) and the proposal applied to the copy
PromoteStage ==
  /\ call.pc = "stage"
  /\ \/ /\ ~call.clone.exists
        /\ call' = Throws(call)
     \/ /\ call.clone.exists
        /\ LET copied == [call EXCEPT
                            !.staged = call.clone.tree,
                            !.clone.tree = IF applyTarget("stage") = "clone"
                                             THEN withProposal(@) ELSE @,
                            !.clone.changes = IF applyTarget("stage") = "clone"
                                                THEN "modified" ELSE @]
           IN  \/ \E reason \in StagingFailures : call' = Fails(copied, reason)
               \/ call' = [copied EXCEPT !.pc = "sandbox"]
  /\ PromoteFrame

\* runInSandbox(install), runInSandbox(test) in the workspace
PromoteSandbox ==
  /\ call.pc = "sandbox"
  /\ \/ \E reason \in SandboxFailures : call' = Fails(call, reason)
     \/ call' = Throws(call)
     \/ call' = [call EXCEPT !.pc = "status", !.tested = withProposal(call.staged)]
  /\ PromoteFrame

\* git status --porcelain
PromoteStatus ==
  /\ call.pc = "status"
  /\ call' = IF repoDirty(IF call.clone.changes = "clean" THEN "" ELSE "??")
               THEN Fails(call, "dirty_repo")
               ELSE [call EXCEPT !.pc = "checkoutBase"]
  /\ PromoteFrame

\* git checkout <GITHUB_DEFAULT_BRANCH>
PromoteCheckoutBase ==
  /\ call.pc = "checkoutBase"
  /\ \E code \in GitCodes :
       call' = IF code = 0
                 THEN [call EXCEPT !.pc = "apply",
                                   !.clone = checkout(call.clone, "main")]
                 ELSE Fails(call, "git_checkout_base_failed")
  /\ PromoteFrame

\* applyRewriteFiles(repoPath) / applyPatch(diff, repoPath), which throws
\* when the patch does not apply
PromoteApply ==
  /\ call.pc = "apply"
  /\ \/ call' = [call EXCEPT !.pc = "branch",
                             !.base = call.clone.tree,
                             !.clone.tree = IF applyTarget("promote") = "clone"
                                              THEN withProposal(@) ELSE @,
                             !.clone.changes = "modified"]
     \/ \E left \in {call.clone.changes, "modified"} :
          call' = [call EXCEPT !.pc = onThrow, !.clone.changes = left]
  /\ PromoteFrame

\* git checkout -b <AUTO_FIX_BRANCH_PREFIX>/<incident.id>
PromoteBranch ==
  /\ call.pc = "branch"
  /\ \E code \in GitCodes :
       call' = IF code = 0
                 THEN [call EXCEPT !.pc = "commit",
                                   !.clone = checkoutNew(call.clone, "fix")]
                 ELSE Fails(call, "git_checkout_failed")
  /\ PromoteFrame

\* git add -A, git commit -m
PromoteCommit ==
  /\ call.pc = "commit"
  /\ \E code \in GitCodes :
       call' = IF code = 0
                 THEN [call EXCEPT !.pc = "push", !.clone = committed(call.clone)]
                 ELSE Fails(call, "git_commit_failed")
  /\ PromoteFrame

\* git push -u origin <branchName>
PromotePush ==
  /\ call.pc = "push"
  /\ \E code \in GitCodes :
       call' = IF code = 0
                 THEN [call EXCEPT !.pc = "pr", !.pushed = call.clone.at["fix"]]
                 ELSE Fails(call, "git_push_failed")
  /\ PromoteFrame

\* createPullRequest: created, not created, or a throw
PromotePullRequest ==
  /\ call.pc = "pr"
  /\ \/ call' = [call EXCEPT !.pc = "comment", !.prs = @ + 1,
                             !.pending = [status |-> "pr_created",
                                          reason |-> "pr_created"]]
     \/ call' = Fails(call, "pr_create_failed")
     \/ call' = Throws(call)
  /\ PromoteFrame

\* await createIssueComment(...); return <pending>
PromoteComment ==
  /\ call.pc = "comment"
  /\ \/ call' = [call EXCEPT !.pc = "done", !.result = call.pending]
     \/ call' = Throws(call)
  /\ PromoteFrame

\* catch (error) { ... return { status: "failed", reason: "unexpected_error" } }
PromoteCatch ==
  /\ call.pc = "catch"
  /\ call' = [call EXCEPT !.pc = "done", !.result = Failed("unexpected_error")]
  /\ PromoteFrame

NextPromote ==
  \/ PromoteGuard
  \/ PromoteResolve
  \/ PromoteReset
  \/ PromotePropose
  \/ PromoteStage
  \/ PromoteSandbox
  \/ PromoteStatus
  \/ PromoteCheckoutBase
  \/ PromoteApply
  \/ PromoteBranch
  \/ PromoteCommit
  \/ PromotePush
  \/ PromotePullRequest
  \/ PromoteComment
  \/ PromoteCatch

SpecPromote == InitPromote /\ [][NextPromote]_vars

(***************************************************************************)
(* withRetry(fn, { attempts, delayMs }): one call, with fn answering each  *)
(* attempt with a value or an error.  events is what an observer sees:     *)
(* the outcome of each call of fn and each timer that ran out.             *)
(***************************************************************************)
MaxAttempts == 3

RETRY_DELAY_MS == 2000

DelaySettings == {0, RETRY_DELAY_MS}

FnValues == {"connection", "undefined"}
FnErrors == {"ECONNREFUSED", "ETIMEDOUT"}

Undefined == "<undefined>"

Called(outcome, what) == [event |-> "fn", outcome |-> outcome, what |-> what]
Waited(ms) == [event |-> "timer", outcome |-> "elapsed", what |-> ms]

\* if (attempt < options.attempts) await setTimeout(delayMs)
waitsAfter_Always(attempt, attempts) == TRUE

waitsAfter(attempt, attempts) == attempt < attempts

\* catch (error) { lastError = error; ... }
caught_KeepsFirst(lastError, error) ==
  IF lastError = Undefined THEN error ELSE lastError

caught(lastError, error) == error

InitRetry ==
  /\ autoEscalateFrom = "high"
  /\ AUTO_FIX_MODE = "off"
  /\ AUTO_FIX_SEVERITY = "high"
  /\ githubConfigured = FALSE
  /\ WfIdle
  /\ FixIdle
  /\ IdxIdle
  /\ ck = NotCalled
  /\ det = NotCalled
  /\ llm = NotCalled
  /\ \E attempts \in 0..MaxAttempts : \E delayMs \in DelaySettings :
       call = [pc |-> "for", attempts |-> attempts, delayMs |-> delayMs,
               attempt |-> 1, lastError |-> Undefined, events |-> <<>>,
               settled |-> "pending", value |-> Undefined]

RetryFrame == UNCHANGED <<cfgVars, wfVars, fixVars, idxVars, ck, det, llm>>

\* for (let attempt = 1; attempt <= options.attempts; ...) ... throw lastError
RetryFor ==
  /\ call.pc = "for"
  /\ call' = IF call.attempt <= call.attempts
               THEN [call EXCEPT !.pc = "fn"]
               ELSE [call EXCEPT !.pc = "done", !.settled = "rejected",
                                 !.value = call.lastError]
  /\ RetryFrame

\* try { return await fn(); } catch (error) { lastError = error; ... }
RetryCall ==
  /\ call.pc = "fn"
  /\ \/ \E v \in FnValues :
          call' = [call EXCEPT !.pc = "done", !.settled = "fulfilled", !.value = v,
                               !.events = Append(@, Called("value", v))]
     \/ \E e \in FnErrors :
          call' = [call EXCEPT
                     !.lastError = caught(@, e),
                     !.events = Append(@, Called("error", e)),
                     !.pc = IF waitsAfter(call.attempt, call.attempts)
                              THEN "timer" ELSE "for",
                     !.attempt = IF waitsAfter(call.attempt, call.attempts)
                                   THEN @ ELSE @ + 1]
  /\ RetryFrame

\* await new Promise((resolve) => setTimeout(resolve, options.delayMs))
RetryTimer ==
  /\ call.pc = "timer"
  /\ call' = [call EXCEPT !.pc = "for", !.attempt = @ + 1,
                          !.events = Append(@, Waited(call.delayMs))]
  /\ RetryFrame

NextRetry ==
  \/ RetryFor
  \/ RetryCall
  \/ RetryTimer

SpecRetry == InitRetry /\ [][NextRetry]_vars

(***************************************************************************)
(* indexRepository and the embedding column: runs of the indexer over the  *)
(* commits of the repository, each with or without an embedding provider.  *)
(* A stored row is a chunk row with its embedding, "null" or "vector".     *)
(***************************************************************************)
MaxRuns == 2

\* embedText: null when no provider is configured
embedText(provider) == IF provider THEN "vector" ELSE "null"

\* results.push({ ..., contentHash, embedding })
Embedded(chunk, embedding) ==
  [path |-> chunk.path, chunkIndex |-> chunk.chunkIndex, content |-> chunk.content,
   contentHash |-> chunk.contentHash, embedding |-> embedding]

InitEmbed ==
  /\ autoEscalateFrom = "high"
  /\ AUTO_FIX_MODE = "off"
  /\ AUTO_FIX_SEVERITY = "high"
  /\ githubConfigured = FALSE
  /\ WfIdle
  /\ FixIdle
  /\ IdxIdle
  /\ ck = NotCalled
  /\ det = NotCalled
  /\ llm = NotCalled
  /\ \E commits \in [1..MaxRevs -> Trees] :
       call = [pc |-> "idle", commits |-> commits, table |-> {}, state |-> NoSha,
               runs |-> 0, provider |-> FALSE, headSha |-> NoSha, files |-> <<>>,
               existingPaths |-> {}, currentPaths |-> {}, early |-> FALSE,
               swallowed |-> FALSE]

EmbedFrame == UNCHANGED <<cfgVars, wfVars, fixVars, idxVars, ck, det, llm>>

\* indexRepository up to the walk, at a commit and with or without a provider
EmbedStart ==
  /\ call.pc \in {"idle", "complete"}
  /\ call.runs < MaxRuns
  /\ \E h \in 1..MaxRevs : \E provider \in BOOLEAN :
       LET hasEmbeddings == call.table # {}
           run == [call EXCEPT !.runs = @ + 1, !.provider = provider, !.headSha = h,
                               !.currentPaths = {}, !.swallowed = FALSE]
       IN  call' = IF earlyReturn(h, call.state, hasEmbeddings)
                     THEN [run EXCEPT !.pc = "complete", !.early = TRUE]
                     ELSE [run EXCEPT !.pc = "files", !.early = FALSE,
                                      !.files = walkFiles(call.commits[h], 1),
                                      !.existingPaths = listRepoPaths(call.table)]
  /\ EmbedFrame

\* one turn of for (const filePath of files) { try { ... } catch { warn } }
EmbedFile ==
  /\ call.pc = "files"
  /\ call.files # <<>>
  /\ LET n == Head(call.files)
         path == IndexPaths[n]
         file == call.commits[call.headSha][n]
         existingHashes == getRepoChunkHashes(call.table, path)
         built == IF file.kind = "text"
                    THEN buildChunks(path, file, existingHashes)
                    ELSE <<>>
         chunks == [k \in 1..Len(built) |-> Embedded(built[k], embedText(call.provider))]
         turn == [call EXCEPT !.files = Tail(@), !.currentPaths = @ \cup {path}]
     IN  \/ call' = [turn EXCEPT !.swallowed = TRUE]
         \/ call' = [turn EXCEPT !.table =
                       IF file.kind = "skipped"
                         THEN IF existingHashes # {}
                                THEN deleteRepoChunksForPath(@, path) ELSE @
                         ELSE cleanupRepoChunks(upsertRepoChunks(@, chunks), path,
                                                Len(file.chunks) - 1)]
  /\ EmbedFrame

\* the rows of missing paths are deleted and the head is stored
EmbedFinish ==
  /\ call.pc = "files"
  /\ call.files = <<>>
  /\ call' = [call EXCEPT
                !.pc = "complete",
                !.table = {r \in @ : r.path \notin (call.existingPaths \ call.currentPaths)},
                !.state = call.headSha]
  /\ EmbedFrame

NextEmbed ==
  \/ EmbedStart
  \/ EmbedFile
  \/ EmbedFinish

SpecEmbed == InitEmbed /\ [][NextEmbed]_vars

(***************************************************************************)
(* Properties of the workflow run (checked under Spec).                    *)
(***************************************************************************)
StartedFor(name, i) ==
  \E k \in 1..Len(started) : started[k] = [name |-> name, inc |-> i]

\* the literal severity order low < medium < high < critical
LiteralRank(s) ==
  CASE s = "low" -> 1 [] s = "medium" -> 2 [] s = "high" -> 3 [] s = "critical" -> 4

AtOrAboveThreshold(i) ==
  /\ autoEscalateFrom # "none"
  /\ LiteralRank(incidents[i].severity) >= LiteralRank(autoEscalateFrom)

\* C1: summarizeIncident and createIssueForIncident are invoked for a
\* detected incident only if autoEscalateFrom is not "none" and the
\* incident's severity is at or above autoEscalateFrom in the literal order;
\* every incident the for-loop has gone past was summarized and had its
\* issue requested exactly when it is at or above the threshold, and an
\* incident below the threshold has no activity called for it at all.
C1_EscalationGate ==
  \A i \in 1..Len(incidents) :
    /\ StartedFor("summarizeIncident", i) => AtOrAboveThreshold(i)
    /\ StartedFor("createIssueForIncident", i) => AtOrAboveThreshold(i)
    /\ ~AtOrAboveThreshold(i) => \A k \in 1..Len(started) : started[k].inc # i
    /\ (idx > i \/ wfResult.returned) =>
         /\ AtOrAboveThreshold(i) <=> StartedFor("summarizeIncident", i)
         /\ AtOrAboveThreshold(i) <=> StartedFor("createIssueForIncident", i)

C1_Witness ==
  /\ wfResult.returned
  /\ Len(incidents) = 2
  /\ \E i, j \in 1..Len(incidents) :
       /\ AtOrAboveThreshold(i) /\ StartedFor("createIssueForIncident", i)
       /\ ~AtOrAboveThreshold(j) /\ autoEscalateFrom # "none"

PositionInIncident(name) ==
  CASE name = "summarizeIncident" -> 0
    [] name = "createIssueForIncident" -> 1
    [] name = "autoFixIncident" -> 2
    [] OTHER -> 0

StartOrder(e) == 3 * e.inc + PositionInIncident(e.name)

\* C2: at most one activity is in flight at any time and it is the one
\* scheduled last; activities are scheduled in the order refreshRepoCache,
\* fetchRecentLogs, detectIncidents, persistIncidents, then per incident in
\* list order summarizeIncident, createIssueForIncident, autoFixIncident;
\* an activity of a later incident is scheduled only when no activity of an
\* earlier one is in flight, and an issue exists at the forge only after
\* persistIncidents has completed.
C2_SequentialOrder ==
  /\ Cardinality(inflight) <= 1
  /\ \A a \in inflight :
       /\ Len(started) > 0
       /\ started[Len(started)] = [name |-> a.name, inc |-> a.inc]
  /\ \A k \in 1..Len(started) :
       /\ k = 1 => started[k] = [name |-> "refreshRepoCache", inc |-> 0]
       /\ k = 2 => started[k] = [name |-> "fetchRecentLogs", inc |-> 0]
       /\ k = 3 => started[k] = [name |-> "detectIncidents", inc |-> 0]
       /\ k = 4 => started[k] = [name |-> "persistIncidents", inc |-> 0]
       /\ k > 4 => /\ started[k].name \in IncidentActivities
                   /\ started[k].inc \in 1..Len(incidents)
       /\ k > 5 => StartOrder(started[k - 1]) < StartOrder(started[k])
       /\ started[k].name = "createIssueForIncident" =>
            started[k - 1] = [name |-> "summarizeIncident", inc |-> started[k].inc]
       /\ started[k].name = "autoFixIncident" =>
            started[k - 1] = [name |-> "createIssueForIncident", inc |-> started[k].inc]
  /\ TotalIssues > 0 =>
       /\ Len(started) > 4
       /\ started[4].name = "persistIncidents"

C2_Witness ==
  /\ wfResult.returned
  /\ \E k \in 1..Len(started) :
       /\ started[k] = [name |-> "autoFixIncident", inc |-> 1]
       /\ k < Len(started)
       /\ started[Len(started)].inc = 2

\* C3 as claimed: the workflow runs the autoFixIncident activity only for an
\* escalated incident whose issue was created with a number, and only if
\* auto-fix is on.
C3_OnlyWhenAutoFixOn ==
  \A k \in 1..Len(started) :
    started[k].name = "autoFixIncident" =>
      /\ issueRes[started[k].inc].created
      /\ issueRes[started[k].inc].number # 0
      /\ AtOrAboveThreshold(started[k].inc)
      /\ AUTO_FIX_MODE = "on"

\* C3 amended: the workflow runs the autoFixIncident activity only for an
\* escalated incident whose createIssueForIncident call returned created
\* with a number; it does so whatever AUTO_FIX_MODE is, and with auto-fix
\* not on the activity returns skipped and leaves no branch and no pull
\* request at the forge.
C3_OnlyAfterIssueCreated ==
  /\ \A k \in 1..Len(started) :
       started[k].name = "autoFixIncident" =>
         /\ issueRes[started[k].inc].called
         /\ issueRes[started[k].inc].created
         /\ issueRes[started[k].inc].number # 0
         /\ AtOrAboveThreshold(started[k].inc)
  /\ AUTO_FIX_MODE # "on" =>
       /\ \A i \in IncIds : forge.branches[i] = 0 /\ forge.prs[i] = 0
       /\ \A a \in inflight :
            (a.name = "autoFixIncident" /\ a.phase = "effected") => a.fx = "skipped"

C3_Witness ==
  /\ AUTO_FIX_MODE = "off"
  /\ \E a \in inflight :
       a.name = "autoFixIncident" /\ a.phase = "effected" /\ a.fx = "skipped"

\* C4: the returned issuesCreated is the number of incidents whose
\* createIssueForIncident returned created = true, the returned incidents
\* are the detected ones (one per signal key of the logs); with empty logs
\* the run returns no incidents, issuesCreated = 0, and persistIncidents is
\* the last activity called.
C4_ReturnValue ==
  wfResult.returned =>
    /\ wfResult.issuesCreated = Cardinality({i \in IncIds : issueRes[i].created})
    /\ wfResult.incidents = detectIncidents(logs)
    /\ Len(wfResult.incidents) =
         Cardinality({extractSignal(logs[n]).key : n \in 1..Len(logs)})
    /\ logs = <<>> =>
         /\ wfResult.incidents = <<>>
         /\ wfResult.issuesCreated = 0
         /\ Len(started) = 4
         /\ started[4].name = "persistIncidents"

C4_Witness ==
  /\ wfResult.returned
  /\ Len(wfResult.incidents) = 2
  /\ wfResult.issuesCreated = 1
  /\ \E i \in 1..2 : issueRes[i].created
  /\ \E i \in 1..2 : ~issueRes[i].called

\* C5 as claimed: a failure of summarization, issue creation or auto-fix
\* for one incident never fails the workflow run.
C5_IncidentFailureNeverFailsRun ==
  ~(/\ wpc = "failed"
    /\ Len(started) > 0
    /\ started[Len(started)].name \in IncidentActivities)

\* C6: an invocation of a default activity is executed at most 3 times and
\* an invocation of autoFixIncident at most once; an invocation is executed
\* again only after its previous attempt failed or timed out.
C6_AttemptsBounded ==
  /\ [](\A a \in inflight :
          a.attempt <= (IF a.name = "autoFixIncident" THEN 1 ELSE 3))
  /\ [][\A a \in inflight : \A b \in inflight' :
          (b.name = a.name /\ b.inc = a.inc /\ b.attempt # a.attempt) =>
            (a.phase = "failed" /\ b.attempt = a.attempt + 1)]_vars

C6_Witness ==
  \E a \in inflight :
    /\ a.name = "createIssueForIncident"
    /\ a.attempt = 3
    /\ a.phase = "running"

\* C7 as claimed: per workflow run and incident at most one issue, one
\* branch and one pull request are created at the forge, retries included.
C7_ForgeAtMostOnce ==
  \A i \in IncIds :
    /\ forge.issues[i] <= 1
    /\ forge.branches[i] <= 1
    /\ forge.prs[i] <= 1

(***************************************************************************)
(* Properties of one autoFixIncident call (checked under SpecFix).         *)
(***************************************************************************)
GuardPasses ==
  /\ AUTO_FIX_MODE = "on"
  /\ \/ AUTO_FIX_SEVERITY = "all"
     \/ LiteralRank(incSeverity) >= LiteralRank(AUTO_FIX_SEVERITY)

HasDenylistedSegment(path) ==
  \E i \in 1..Len(path) : path[i] \in {".env", "secrets", "credentials"}

\* C8: whenever AUTO_FIX_MODE is not "on" or the incident's severity ranks
\* below AUTO_FIX_SEVERITY ("all" admits every severity), autoFixIncident
\* returns skipped having done no retrieval, no LLM call, no comment, no
\* workspace, no git command and no pull request; when the guard passes the
\* call never returns skipped.
C8_GuardSkips ==
  /\ (fpc # "start" /\ ~GuardPasses) =>
       /\ fpc = "done"
       /\ fixResult.status = "skipped"
       /\ fixEffects = {}
       /\ comments = {}
       /\ ws = [files |-> {}, written |-> {}]
       /\ clone.written = {}
       /\ ~clone.fixBranch
       /\ fixHist.prs = 0
  /\ GuardPasses => fixResult.status # "skipped"

C8_Witness ==
  /\ fpc = "done"
  /\ fixResult.status = "skipped"
  /\ AUTO_FIX_MODE = "on"
  /\ AUTO_FIX_SEVERITY = "high"
  /\ incSeverity = "medium"

\* C9: no path that autoFixIncident writes or patches, in the staging
\* workspace or in the real clone, contains a denylisted segment, whether
\* the change comes from the diff proposal, the first-pass rewrite or the
\* regenerated rewrite.
C9_NoDenylistedPathWritten ==
  \A p \in ws.written \cup clone.written : ~HasDenylistedSegment(p)

\* C10: once the call is over, if the touched files of a proposal that
\* passed format validation hold a path with a denylisted segment (and the
\* forge takes the comment), the result is failed: unsafe_files, the comment
\* about it is on the issue and no branch was created.
C10_UnsafeFilesReported ==
  ( /\ fpc = "done"
    /\ fixHist.pass # "none"
    /\ \E n \in 1..Len(touchedFiles) : HasDenylistedSegment(touchedFiles[n])
    /\ githubConfigured
    /\ ~fixHist.commentThrew )
  => /\ fixResult = Failed("unsafe_files")
     /\ "unsafe_files" \in comments
     /\ "branch" \notin fixEffects

Promoted ==
  \/ clone.fixBranch
  \/ clone.pushed
  \/ fixHist.prs > 0
  \/ fixEffects \cap {"branch", "commit", "push", "pr"} # {}
  \/ fpc \in {"commit", "push", "pr"}
  \/ fixResult.status = "pr_created"

ProposalInWorkspace ==
  IF rewrite # <<>>
    THEN \A n \in 1..Len(rewrite) : rewrite[n].path \in ws.files
    ELSE \A n \in 1..Len(diff.sections) : diff.sections[n].path \in ws.files

Ended == fpc \in {"comment", "catch", "done"}

CommentDelivered ==
  (fpc = "done" /\ ~fixHist.commentThrew) =>
     /\ fixResult = pending
     /\ githubConfigured => pending.reason \in comments

\* C11: a branch is created, a commit made, a push done or a pull request
\* opened only after the test command (and the install command, when it
\* ran) exited with code 0 in the sandbox, on a workspace that holds the
\* applied proposal; a pr_created result implies that green run.
C11_GreenBeforePromotion ==
  Promoted =>
    /\ fixHist.sandbox = "green"
    /\ ProposalInWorkspace

C11_Witness ==
  /\ fpc = "done"
  /\ fixResult.status = "pr_created"
  /\ fixHist.sandbox = "green"
  /\ clone.pushed
  /\ rewrite # <<>>

\* C12: a non-zero exit of the install command ends the call with
\* failed: sandbox_install_failed and the test command is never run; a
\* non-zero exit of the test command ends it with
\* failed: sandbox_validation_failed; either way the comment is posted (when
\* the forge takes it), no further sandbox command runs and nothing is
\* promoted.
C12_SandboxFailureReported ==
  /\ fixHist.sandbox # "test_after_failed_install"
  /\ fixHist.sandbox = "install_failed" =>
       /\ Ended
       /\ pending = Failed("sandbox_install_failed")
  /\ fixHist.sandbox = "test_failed" =>
       /\ Ended
       /\ pending = Failed("sandbox_validation_failed")
  /\ fixHist.sandbox \in {"install_failed", "test_failed"} =>
       /\ CommentDelivered
       /\ clone.written = {}
       /\ fixHist.statusSeen = "none"

C12_Witness ==
  /\ fpc = "done"
  /\ fixHist.sandbox = "install_failed"
  /\ fixResult = Failed("sandbox_install_failed")
  /\ "sandbox_install_failed" \in comments

\* C13: the clone is checked out, written, branched or pushed only after
\* git status --porcelain came back empty; when it is not empty the call
\* ends with failed: dirty_repo and its comment, with no checkout, no file
\* write, no branch and no push.
C13_CleanCloneBeforePromotion ==
  /\ ( \/ clone.written # {}
       \/ clone.fixBranch
       \/ clone.pushed
       \/ fixHist.checkouts > 0
       \/ fpc \in {"checkoutBase", "applyClone", "branch", "commit", "push", "pr"} )
     => fixHist.statusSeen = "clean"
  /\ fixHist.statusSeen = "dirty" =>
       /\ Ended
       /\ pending = Failed("dirty_repo")
       /\ CommentDelivered

C13_Witness ==
  /\ fpc = "done"
  /\ fixHist.statusSeen = "dirty"
  /\ fixResult = Failed("dirty_repo")
  /\ "dirty_repo" \in comments
  /\ clone.written = {}

\* C14: autoFixIncident never throws: whatever a collaborator does, the
\* call goes on to a result whose status is skipped, failed or pr_created;
\* a throw (a failing comment call included) ends in
\* failed: unexpected_error after the best-effort comment was attempted.
C14_NeverThrows ==
  /\ fpc # "done" => ENABLED NextFix
  /\ fpc = "done" => fixResult.status \in {"skipped", "failed", "pr_created"}
  /\ (fpc = "done" /\ fixHist.commentThrew) => fixResult = Failed("unexpected_error")
  /\ (fpc = "done" /\ fixHist.prRejected) => fixResult = Failed("unexpected_error")
  /\ fixResult = Failed("unexpected_error") => "comment" \in fixEffects

C14_Witness ==
  /\ fpc = "done"
  /\ fixHist.commentThrew
  /\ fixResult = Failed("unexpected_error")

\* C15 as claimed: every diff longer than MAX_DIFF_BYTES ends the call with
\* failed: diff_too_large, with no rewrite requested and nothing applied.
C15_OversizeDiffRejected ==
  fixHist.diffLong =>
    /\ fixHist.rewriteCalls = 0
    /\ fpc # "rewrite"
    /\ ws.written = {}
    /\ (fpc = "done" /\ ~fixHist.commentThrew) => fixResult = Failed("diff_too_large")

\* C15: a diff that is a unified diff with touched files and is longer than
\* MAX_DIFF_BYTES ends the call with failed: diff_too_large and its comment,
\* no rewrite requested, nothing applied; a diff of at most MAX_DIFF_BYTES
\* is never rejected for size; an over-long diff that is not a unified diff
\* is discarded as invalid and a rewrite is requested.
C15_WellFormedOversizeDiffRejected ==
  /\ (fixHist.diffLong /\ fixHist.diffFormed) =>
       /\ Ended
       /\ pending = Failed("diff_too_large")
       /\ fixHist.rewriteCalls = 0
       /\ ws = [files |-> {}, written |-> {}]
       /\ clone.written = {}
       /\ CommentDelivered
  /\ ~fixHist.diffLong =>
       /\ pending.reason # "diff_too_large"
       /\ fixResult.reason # "diff_too_large"
  /\ (fixHist.diffLong /\ ~fixHist.diffFormed) =>
       /\ pending.reason # "diff_too_large"
       /\ fpc = "rewrite" \/ fixHist.rewriteCalls >= 1

C15_Witness ==
  /\ fpc = "done"
  /\ fixHist.diffLong
  /\ fixResult = Failed("diff_too_large")
  /\ "diff_too_large" \in comments

\* C16 as claimed: a rewrite that fails any rewrite check (size, denylist,
\* anchors, length) ends the call with failed: rewrite_invalid and no file
\* of that rewrite written.
C16_BadRewriteIsRewriteInvalid ==
  (fpc = "done" /\ fixHist.rewriteCheck = "fail" /\ ~fixHist.commentThrew) =>
    /\ fixResult = Failed("rewrite_invalid")
    /\ ~fixHist.rewriteWrote

FallbackFailed ==
  /\ fpc = "done"
  /\ fixHist.wsApplies >= 1
  /\ fixHist.rewriteCalls >= 1
  /\ fixHist.sandbox = "none"
  /\ ~fixHist.commentThrew

\* C17 as claimed: when the rewrite requested after a failed patch
\* application fails too, the result is failed: invalid_diff.
C17_FallbackFailureIsInvalidDiff ==
  FallbackFailed => fixResult = Failed("invalid_diff")

\* C17: a rewrite is requested after a failed patch application only once
\* git apply ran twice, the second time on the sanitized diff; when that
\* rewrite fails the result is invalid_diff if none was produced,
\* rewrite_invalid if validation refused it and unexpected_error if writing
\* its files threw; an accepted one is in the workspace when the sandbox
\* starts.
C17_FallbackOutcomes ==
  /\ fixHist.wsApplies <= 2
  /\ (fpc = "fallback" /\ fixHist.rewriteCalls = 0) => fixHist.wsApplies = 2
  /\ (fixHist.rewriteCalls >= 1 /\ fixHist.wsApplies >= 1) => fixHist.wsApplies = 2
  /\ FallbackFailed =>
       /\ fixResult.status = "failed"
       /\ fixResult.reason \in {"invalid_diff", "rewrite_invalid", "unexpected_error"}
       /\ fixResult.reason = "invalid_diff" <=> (rewrite = <<>> /\ fixHist.rewriteCheck = "none")
       /\ fixResult.reason = "rewrite_invalid" <=> (rewrite = <<>> /\ fixHist.rewriteCheck # "none")
       /\ fixResult.reason = "unexpected_error" <=> rewrite # <<>>
  /\ (fixHist.pass = "fallback" /\ fpc \in {"install", "test"}) => ProposalInWorkspace

C17_Witness ==
  /\ fpc = "done"
  /\ fixHist.wsApplies = 2
  /\ fixHist.rewriteCalls = 1
  /\ fixResult = Failed("rewrite_invalid")

\* C18 as claimed: when pull-request creation fails, for missing
\* configuration or because the forge rejects the request, the result is
\* failed: pr_create_failed with its comment; when it succeeds the result is
\* pr_created with the comment carrying the URL.
C18_PrOutcomeReported ==
  /\ (fpc = "done" /\ clone.pushed /\ fixHist.prs = 0 /\ ~fixHist.commentThrew) =>
       fixResult = Failed("pr_create_failed")
  /\ (fpc = "done" /\ fixHist.prs > 0 /\ ~fixHist.commentThrew) =>
       /\ fixResult.status = "pr_created"
       /\ "pr_created" \in comments

(***************************************************************************)
(* Properties of the repository indexer (checked under SpecIndex).         *)
(***************************************************************************)
ExpectedRows(tree) ==
  UNION { {Row(IndexPaths[n], i - 1, tree[n].chunks[i]) : i \in 1..Len(tree[n].chunks)} :
            n \in 1..Len(IndexPaths) }

\* C19 as claimed: whenever an indexer run completes at HEAD = H, early
\* return included, the stored rows are exactly the chunks of the tree at H
\* with the hash of their current content, and the stored head is H.
C19_IndexConverges ==
  (ix.pc = "complete" /\ ix.headSha # NoSha) =>
    /\ rows = ExpectedRows(revs[head])
    /\ indexState = head

\* C20 as claimed: the stored head is written only by a run in which every
\* chunk upsert and deletion succeeded, so a run at H after a failed one
\* never takes the early return before the rows are in sync.
C20_HeadOnlyAfterSuccess ==
  /\ ix.wroteState => ~ix.swallowed
  /\ (ix.pc = "complete" /\ ix.early) => rows = ExpectedRows(revs[head])

\* C21: a run that follows, at the same HEAD, a completed run that read HEAD
\* and in which no file failed calls embedText zero times, upserts no row and
\* issues no DELETE; a run of that kind that cannot read HEAD still embeds and
\* upserts nothing and leaves the rows as they are; and a run that finds the
\* stored head equal to HEAD with rows present returns before it walks a file.
C21_SecondRunDoesNothing ==
  /\ (ix.prevClean /\ ix.headSha # NoSha) =>
       ix.embeds = 0 /\ ix.upserts = 0 /\ ix.deletes = 0
  /\ ix.prevClean =>
       ix.embeds = 0 /\ ix.upserts = 0 /\ rows = ExpectedRows(revs[head])
  /\ (ix.pc \in {"files", "state", "complete"} /\ ix.headSha # NoSha
        /\ ix.stored = ix.headSha /\ ix.hadRows) =>
       /\ ix.early
       /\ ix.pc = "complete"
       /\ ix.currentPaths = {}
       /\ ix.embeds = 0 /\ ix.upserts = 0 /\ ix.deletes = 0

C21_Witness ==
  /\ ix.pc = "complete"
  /\ ix.prevClean
  /\ ix.early
  /\ ix.headSha = head
  /\ rows # {}

HeadUnavailable == ix.revParse.code # 0 \/ ix.revParse.output = NoOutput

\* C22: a run that cannot read HEAD never returns early and never writes the
\* stored head, which stays what the run found; when no file fails it still
\* leaves the rows equal to the chunks of the tree.
C22_NoHeadNoState ==
  (ix.pc \in {"files", "state", "complete"} /\ HeadUnavailable) =>
    /\ ~ix.early
    /\ ~ix.wroteState
    /\ indexState = ix.stored
    /\ (ix.pc = "complete" /\ ~ix.swallowed) => rows = ExpectedRows(revs[head])

C22_Witness ==
  /\ ix.pc = "complete"
  /\ HeadUnavailable
  /\ ix.embeds > 0
  /\ ix.upserts > 0
  /\ rows = ExpectedRows(revs[head])
  /\ indexState = NoSha

(***************************************************************************)
(* Properties of chunkText (checked under SpecChunk).                      *)
(***************************************************************************)
CeilDiv(a, b) == (a + b - 1) \div b

FirstOf(chunk) == chunk[1]
LastOf(chunk) == chunk[Len(chunk)]

\* C23: a returned call on content of length at most chunkSize yields the
\* content as its one chunk; on longer content it yields
\* ceil((n - chunkSize) / (chunkSize - overlap)) + 1 chunks, none longer than
\* chunkSize, each starting overlap characters before the end of the one
\* before, the first at 0 and the last ending at n, every character in some
\* chunk.
C23_ChunkCountAndCoverage ==
  ck.pc = "returned" =>
    LET n == Len(ck.content)
        chunks == ck.chunks
    IN  IF n <= ck.chunkSize
          THEN chunks = <<ck.content>>
          ELSE /\ ck.overlap < ck.chunkSize
               /\ Len(chunks) = CeilDiv(n - ck.chunkSize, ck.chunkSize - ck.overlap) + 1
               /\ \A k \in 1..Len(chunks) :
                    /\ Len(chunks[k]) >= 1
                    /\ Len(chunks[k]) <= ck.chunkSize
                    /\ chunks[k] = SubSeq(ck.content, FirstOf(chunks[k]), LastOf(chunks[k]))
               /\ \A k \in 1..(Len(chunks) - 1) :
                    /\ FirstOf(chunks[k + 1]) = LastOf(chunks[k]) - ck.overlap + 1
                    /\ Len(chunks[k]) = ck.chunkSize
               /\ FirstOf(chunks[1]) = 1
               /\ LastOf(chunks[Len(chunks)]) = n
               /\ \A i \in 1..n : \E k \in 1..Len(chunks) :
                    \E j \in 1..Len(chunks[k]) : chunks[k][j] = i

C23_Witness ==
  /\ ck.pc = "returned"
  /\ Len(ck.content) > ck.chunkSize
  /\ ck.overlap > 0
  /\ Len(ck.chunks) >= 3
  /\ Len(ck.chunks[Len(ck.chunks)]) < ck.chunkSize

\* C24 as claimed: on every turn of the loop that does not return, the
\* window start strictly advances.
C24_StartAdvances ==
  [][(ck.pc = "loop" /\ ck'.pc = "loop") => ck'.start > ck.start]_vars

(***************************************************************************)
(* Properties of the detector (checked under SpecDetect).                  *)
(***************************************************************************)
\* the message a rule looks at: the msg field when the message is a JSON
\* object with a string msg, the raw message otherwise
Says(log, phrase) ==
  IF log.json = "object" /\ log.msg.is = "string"
    THEN phrase \in log.msg.value
    ELSE phrase \in log.contains

TypeOf(log) == IF log.json = "object" /\ log.type.is = "string" THEN log.type.value ELSE ""
RouteOf(log) ==
  IF log.json = "object" /\ log.route.is = "string" THEN log.route.value ELSE "unknown"

IsBurst(log) == TypeOf(log) = "error_burst" \/ Says(log, "Synthetic error burst")

RuleOf(log) ==
  CASE IsBurst(log) -> <<"error_burst", "high">>
    [] ~IsBurst(log) /\ Says(log, "Simulated error") -> <<"error", "high">>
    [] ~IsBurst(log) /\ ~Says(log, "Simulated error") /\ Says(log, "Slow response") ->
         <<"slow", "medium">>
    [] ~IsBurst(log) /\ ~Says(log, "Simulated error") /\ ~Says(log, "Slow response")
         /\ Says(log, "Failed login attempt") -> <<"auth", "low">>
    [] OTHER -> <<"other", "low">>

KeyOf(log) == <<RuleOf(log)[1], RouteOf(log)>>

EventsOf(key) == {i \in 1..Len(det.logs) : KeyOf(det.logs[i].log) = key}

\* the messages of the events of a key, in input order
RECURSIVE MessagesOf(_, _)
MessagesOf(key, i) ==
  IF i > Len(det.logs) THEN <<>>
  ELSE (IF KeyOf(det.logs[i].log) = key THEN <<det.logs[i].log.message>> ELSE <<>>)
         \o MessagesOf(key, i + 1)

RECURSIVE SumCounts(_)
SumCounts(incs) == IF incs = <<>> THEN 0 ELSE Head(incs).count + SumCounts(Tail(incs))

\* C25: the call returns one incident per distinct signal key of the input;
\* its count is the number of events with the key, its evidence their first
\* min(5, count) messages in input order, its severity the severity of the
\* key's rule, its firstSeen and lastSeen the least and greatest timestamp
\* of those events in string order; the counts sum to the number of events.
\* Everything but id is thereby a function of the input.
C25_OneIncidentPerKey ==
  det.pc = "returned" =>
    /\ {det.incidents[n].key : n \in 1..Len(det.incidents)} =
         {KeyOf(det.logs[i].log) : i \in 1..Len(det.logs)}
    /\ \A m, n \in 1..Len(det.incidents) :
         det.incidents[m].key = det.incidents[n].key => m = n
    /\ \A n \in 1..Len(det.incidents) :
         LET inc == det.incidents[n]
             all == MessagesOf(inc.key, 1)
         IN  /\ inc.count = Cardinality(EventsOf(inc.key))
             /\ inc.count = Len(all)
             /\ Len(inc.evidence) = Min(5, inc.count)
             /\ inc.evidence = SubSeq(all, 1, Min(5, inc.count))
             /\ \A i \in EventsOf(inc.key) : inc.severity = RuleOf(det.logs[i].log)[2]
             /\ \E i \in EventsOf(inc.key) : det.logs[i].timestamp = inc.firstSeen
             /\ \E i \in EventsOf(inc.key) : det.logs[i].timestamp = inc.lastSeen
             /\ \A i \in EventsOf(inc.key) :
                  /\ ~lexLess(det.logs[i].timestamp, inc.firstSeen)
                  /\ ~lexLess(inc.lastSeen, det.logs[i].timestamp)
    /\ SumCounts(det.incidents) = Len(det.logs)

C25_Witness ==
  /\ det.pc = "returned"
  /\ Len(det.incidents) = 2
  /\ det.incidents[1].count = 6
  /\ Len(det.incidents[1].evidence) = 5
  /\ det.incidents[1].id = det.incidents[2].id

\* C26: every event is classified by the first rule that matches, in the
\* order error_burst, error, slow, auth, other, with the route of the parsed
\* object or "unknown"; an event whose message is not valid JSON is
\* classified from its raw message, and the call returns.
C26_FirstMatchingRule ==
  /\ \A i \in 1..Len(det.signals) :
       /\ det.signals[i].key = KeyOf(det.logs[i].log)
       /\ det.signals[i].severity = RuleOf(det.logs[i].log)[2]
  /\ det.pc # "idle" => Len(det.signals) = det.next - 1
  /\ det.pc = "returned" => Len(det.signals) = Len(det.logs)

C26_Witness ==
  /\ det.pc = "returned"
  /\ \E i \in 1..Len(det.logs) :
       /\ det.logs[i].log.json = "invalid"
       /\ {"Failed login attempt", "Simulated error"} \subseteq det.logs[i].log.contains
       /\ det.signals[i].key = <<"error", "unknown">>
  /\ \E i \in 1..Len(det.logs) :
       /\ det.logs[i].log.type = Str("error_burst")
       /\ "Slow response" \in det.logs[i].log.contains
       /\ det.signals[i].key = <<"error_burst", "unknown">>

RECURSIVE numericValue(_)
numericValue(digits) ==
  IF digits = <<>> THEN 0
  ELSE 10 * numericValue(SubSeq(digits, 1, Len(digits) - 1)) + digits[Len(digits)]

\* C27 as claimed: firstSeen is the numerically smallest and lastSeen the
\* numerically largest timestamp of the events of the incident's key.
C27_SeenBoundsAreNumeric ==
  \A n \in 1..Len(det.incidents) :
    LET inc == det.incidents[n]
    IN  /\ \A i \in EventsOf(inc.key) :
             /\ numericValue(inc.firstSeen) <= numericValue(det.logs[i].timestamp)
             /\ numericValue(det.logs[i].timestamp) <= numericValue(inc.lastSeen)
        /\ \E i \in EventsOf(inc.key) : det.logs[i].timestamp = inc.firstSeen
        /\ \E i \in EventsOf(inc.key) : det.logs[i].timestamp = inc.lastSeen

(***************************************************************************)
(* Order of escalation (checked under Spec).                               *)
(***************************************************************************)
\* the signal keys of LogEvents in string order:
\* "auth:unknown" < "error_burst:/api/orders" < "slow:/slow"
KeysInOrder == << <<"auth", "unknown">>, <<"error_burst", "/api/orders">>, <<"slow", "/slow">> >>

KeyPosition(key) == CHOOSE n \in 1..Len(KeysInOrder) : KeysInOrder[n] = key

\* C28 as claimed: issues are created in severity-descending order and, for
\* equal severity, in key order, whatever the order of the log events.
C28_EscalationOrder ==
  \A j, k \in 1..Len(started) :
    (/\ j < k
     /\ started[j].name = "createIssueForIncident"
     /\ started[k].name = "createIssueForIncident"
     /\ started[j].inc # started[k].inc) =>
      LET a == incidents[started[j].inc]
          b == incidents[started[k].inc]
      IN  \/ LiteralRank(a.severity) > LiteralRank(b.severity)
          \/ /\ LiteralRank(a.severity) = LiteralRank(b.severity)
             /\ KeyPosition(a.key) < KeyPosition(b.key)

(***************************************************************************)
(* Properties of the LLM summary (checked under SpecLlm).                  *)
(***************************************************************************)
\* a key is present when it is set to a non-empty string
Present(n) == llm.keys[n] \notin {NoKey, ""}

ProviderIndex(name) == CHOOSE n \in 1..3 : Providers[n] = name

\* C29: with preference auto the resolved provider is the first of openai,
\* anthropic, gemini whose key is present, and none when no key is present;
\* with an explicit preference it is that provider exactly when its own key
\* is present, whatever the other keys are.
C29_ProviderResolution ==
  llm.pc \in {"call", "parse", "returned", "issue"} =>
    LET none == llm.pc \in {"returned", "issue"} /\ llm.called = "no"
    IN  IF llm.LLM_PROVIDER = "auto"
          THEN /\ none <=> \A n \in 1..3 : ~Present(n)
               /\ ~none => \E n \in 1..3 :
                    /\ llm.resolved.provider = Providers[n]
                    /\ Present(n)
                    /\ \A k \in 1..(n - 1) : ~Present(k)
          ELSE /\ none <=> ~Present(ProviderIndex(llm.LLM_PROVIDER))
               /\ ~none => llm.resolved.provider = llm.LLM_PROVIDER

C29_Witness ==
  /\ llm.pc = "returned"
  /\ llm.LLM_PROVIDER = "anthropic"
  /\ llm.keys = <<"sk-test", "", "sk-test">>
  /\ llm.called = "no"

HasPayload(text) ==
  \E i, j \in 1..Len(text) : i < j /\ text[i] = "{" /\ text[j] = "}"

\* the text between the first "{" and the last "}" of a reply with a payload
PayloadOf(text) ==
  LET first == CHOOSE i \in 1..Len(text) : text[i] = "{" /\ \A k \in 1..(i - 1) : text[k] # "{"
      last == CHOOSE j \in 1..Len(text) : text[j] = "}" /\ \A k \in (j + 1)..Len(text) : text[k] # "}"
  IN  SubSeq(text, first + 1, last - 1)

\* C30: the call always returns, and it returns null whenever no provider is
\* resolved, the provider call fails, the reply has no "{"..."}" payload, or
\* the payload is not JSON or fails the schema, and a summary otherwise; the
\* issue is then still created, its body carrying the status
\* not_configured_or_failed exactly when the result is null.
C30_SummaryNullOnFailure ==
  /\ llm.pc \in {"returned", "issue"} =>
       /\ llm.result \in {"null", "summary"}
       /\ llm.result = "null" <=>
            \/ llm.called = "no"
            \/ llm.called = "threw"
            \/ ~HasPayload(llm.raw)
            \/ PayloadOf(llm.raw) \notin {<<"valid_fields">>}
  /\ llm.pc = "returned" => ENABLED LlmIssue
  /\ llm.pc = "issue" =>
       /\ llm.issue.called
       /\ llm.result = "null" <=> llm.issue.status = "not_configured_or_failed"
       /\ llm.result = "summary" <=> llm.issue.status = "generated"

C30_Witness ==
  /\ llm.pc = "issue"
  /\ llm.called = "replied"
  /\ llm.raw = <<"prose">>
  /\ llm.result = "null"
  /\ llm.issue.created
  /\ llm.issue.status = "not_configured_or_failed"

(***************************************************************************)
(* Properties of runInSandbox (checked under SpecSandbox).                 *)
(***************************************************************************)
\* C31: runInSandbox never rejects: it resolves with the exit code of the
\* process for every code, zero or not, and with exitCode 1 when the process
\* cannot be spawned; once the process has closed the timer is no longer
\* pending and no kill is sent afterwards, and a process killed on timeout
\* that has closed has resolved the call.
C31_NeverRejects ==
  /\ call.pc = "listening" =>
       /\ call.promise # "rejected"
       /\ call.child = "closed" =>
            /\ call.promise = "resolved"
            /\ call.exitCode = exitCodeOf(call.closeCode)
            /\ call.timer # "armed"
            /\ call.killsAfterClose = 0
       /\ (call.spawned # "child" /\ call.child \in {"failed", "closed"}) =>
            call.promise = "resolved" /\ call.exitCode = 1

(***************************************************************************)
(* Properties of getCachedRepoPath (checked under SpecCache).              *)
(***************************************************************************)
RanCommands == [n \in 1..Len(call.ran) |-> call.ran[n].cmd]

CloneCase ==
  \/ ~call.dirAtCall
  \/ call.option = "reclone"
  \/ call.option = "undefined" /\ call.setting = "reclone"

\* C32: getCachedRepoPath clones if and only if the cache directory is
\* absent or the refresh mode is "reclone", removing an existing directory
\* before the clone, and otherwise runs fetch and then reset; it returns
\* only when every git command it ran exited 0, throws when one did not, and
\* never runs reset after a failed fetch.
C32_CloneOrRefresh ==
  call.pc \in {"rm", "clone", "fetch", "reset", "returned", "thrown"} =>
    /\ \A n \in 1..Len(call.ran) :
         /\ call.ran[n].cmd = "clone" =>
              CloneCase /\ ~call.ran[n].dir /\ (call.dirAtCall => call.removed)
         /\ call.ran[n].cmd \in {"fetch", "reset"} => ~CloneCase /\ ~call.removed
         /\ call.ran[n].cmd = "reset" =>
              n > 1 /\ call.ran[n - 1] = [cmd |-> "fetch", code |-> 0, dir |-> TRUE]
    /\ call.pc = "returned" =>
         /\ RanCommands = IF CloneCase THEN <<"clone">> ELSE <<"fetch", "reset">>
         /\ \A n \in 1..Len(call.ran) : call.ran[n].code = 0
    /\ (\E n \in 1..Len(call.ran) : call.ran[n].code # 0) =>
         call.pc = "thrown" /\ call.ran[Len(call.ran)].code # 0
    /\ call.pc = "thrown" => \A n \in 1..Len(call.ran) - 1 : call.ran[n].code = 0

C32_Witness ==
  /\ call.pc = "returned"
  /\ call.dirAtCall
  /\ call.option = "undefined" /\ call.setting = "reclone"
  /\ call.removed
  /\ RanCommands = <<"clone">>

(***************************************************************************)
(* Properties of retrieveRepoContext (checked under SpecRetrieve).         *)
(***************************************************************************)
\* C33: retrieveRepoContext returns at most RAG_TOP_K results, every one
\* taken from a row stored under the resolved repoKey with a non-null
\* embedding and a score at or above the minimum score, in ascending order
\* of distance; with no repoKey or no embedding it returns the empty list
\* and the search query is never run.
C33_TopKOfOwnRepo ==
  /\ call.pc = "returned" =>
       /\ Len(call.result) <= call.RAG_TOP_K
       /\ \A i \in 1..Len(call.result) :
            /\ call.result[i].score >= minScoreOf(call.RAG_MIN_SCORE)
            /\ \E slot \in StoredSlots :
                 /\ slot = <<call.repoKey, call.result[i].path>>
                 /\ call.store[slot] # <<>>
                 /\ 10 - call.store[slot][1] = call.result[i].score
       /\ \A i \in 1..(Len(call.result) - 1) :
            call.result[i].score >= call.result[i + 1].score
       /\ \A i, j \in 1..Len(call.result) :
            i # j => call.result[i].path # call.result[j].path
  /\ (call.repoKey = "null" \/ call.embedding = "null") =>
       /\ call.searches = 0
       /\ call.pc = "returned" => call.result = <<>>

C33_Witness ==
  /\ call.pc = "returned"
  /\ call.RAG_TOP_K = 2
  /\ call.RAG_MIN_SCORE = <<5>>
  /\ Len(call.result) = 2
  /\ call.result[1].score > call.result[2].score
  /\ call.store[<<"other/repo", "e">>] = <<0>>
  /\ \E p \in {"a", "b", "c", "d"} : call.store[<<"owner/repo", p>>] = <<12>>
  /\ \E p \in {"a", "b", "c", "d"} : call.store[<<"owner/repo", p>>] = <<>>

BeforePromotion ==
  /\ call.pc = "done"
  /\ \/ call.result.status = "skipped"
     \/ call.result.status = "failed" /\ call.result.reason \in PrePromotion

\* C35 as claimed: when autoFixIncident returns skipped or a failure raised
\* before promotion, the clone's working tree, current branch and branches
\* are as they were when the call began, nothing is pushed and no pull
\* request is opened.
C35_CloneUnchangedByCall ==
  BeforePromotion =>
    /\ call.clone = call.before
    /\ call.pushed = NoTree
    /\ call.prs = 0

\* C35: when autoFixIncident returns skipped or a failure raised before
\* promotion, the clone's working tree, current branch and branches are as
\* the resolution of repoPath left them: untouched when the call is skipped
\* or AUTO_FIX_REPO_PATH is set, and as getCachedRepoPath's clone, or fetch
\* and reset --hard, left them otherwise; nothing is pushed and no pull
\* request is opened.
C35_CloneUnchangedAfterResolve ==
  BeforePromotion =>
    /\ call.clone = call.resolved
    /\ (call.result.status = "skipped" \/ call.AUTO_FIX_REPO_PATH) =>
         call.clone = call.before
    /\ call.pushed = NoTree
    /\ call.prs = 0

C35_Witness ==
  /\ BeforePromotion
  /\ call.result.reason = "sandbox_validation_failed"
  /\ ~call.AUTO_FIX_REPO_PATH
  /\ call.staged = Tree(2, "none")
  /\ call.before.tree = Tree(1, "none")
  /\ call.clone = call.resolved

\* C37 as claimed: when autoFixIncident returns pr_created, the commit
\* pushed on the fix branch is the proposal applied to the revision that was
\* copied into the staging workspace and tested.
C37_PushedIsTested ==
  (call.pc = "done" /\ call.result.status = "pr_created") =>
    /\ call.pushed = call.tested
    /\ call.base = call.staged

(***************************************************************************)
(* Properties of withRetry (checked under SpecRetry).                      *)
(***************************************************************************)
FnCalls == SelectSeq(call.events, LAMBDA ev : ev.event = "fn")

\* C36: withRetry calls fn at most attempts times; a value of fn ends the
\* call, which is fulfilled with that value; a timer of delayMs runs after
\* each failed attempt except the last one allowed, and nowhere else; after
\* attempts failures the call is rejected with the error of the final
\* attempt.
C36_RetryContract ==
  LET events == call.events
      n == Len(events)
  IN  /\ Len(FnCalls) <= call.attempts
      /\ \A i \in 1..n :
           /\ events[i].outcome = "value" =>
                /\ i = n
                /\ call.settled = "fulfilled"
                /\ call.value = events[i].what
           /\ events[i].outcome = "error" =>
                IF Len(SelectSeq(SubSeq(events, 1, i), LAMBDA ev : ev.event = "fn"))
                     < call.attempts
                  THEN i < n => events[i + 1] = Waited(call.delayMs)
                  ELSE i = n
           /\ events[i].event = "timer" =>
                /\ i > 1 /\ events[i - 1].outcome = "error"
                /\ i < n \/ call.pc = "for" \/ call.pc = "fn"
      /\ call.settled = "fulfilled" => (n > 0 /\ events[n].outcome = "value")
      /\ call.settled = "rejected" =>
           /\ Len(FnCalls) = call.attempts
           /\ \A i \in 1..n : events[i].outcome # "value"
           /\ n > 0 => (events[n].outcome = "error" /\ call.value = events[n].what)
      /\ call.pc = "done" <=> call.settled # "pending"

C36_Witness ==
  /\ call.settled = "rejected"
  /\ call.attempts = 3
  /\ Len(call.events) = 5
  /\ call.events[1].what = "ECONNREFUSED"
  /\ call.value = "ETIMEDOUT"

\* C38 as claimed: when autoFixIncident returns failed on a clone that was
\* clean once its path was resolved, git status --porcelain on the clone is
\* empty afterwards.
C38_FailedLeavesCloneClean ==
  ( /\ call.pc = "done"
    /\ call.result.status = "failed"
    /\ call.resolved.exists
    /\ call.resolved.changes = "clean" )
  => call.clone.changes = "clean"

\* C39 as claimed: autoFixIncident returns pr_created exactly when a pull
\* request was created at the forge during the call.
C39_PrCreatedIffPullRequest ==
  call.pc = "done" => (call.result.status = "pr_created" <=> call.prs > 0)

(***************************************************************************)
(* Properties of the embedding column (checked under SpecEmbed).           *)
(***************************************************************************)
\* C40 as claimed: after an indexing run that did not exit early, had an
\* embedding provider and in which no file failed, every stored row has a
\* non-null embedding, also when an earlier run stored rows with a null
\* embedding.
C40_ProviderRunEmbedsEveryRow ==
  ( /\ call.pc = "complete"
    /\ call.runs > 0
    /\ ~call.early
    /\ call.provider
    /\ ~call.swallowed )
  => \A r \in call.table : r.embedding # "null"

====
